---- MODULE Spec2Model ----
(***************************************************************************)
(* A model of the Elasticsearch MCP server: the tenant registry            *)
(* (ConfigManager), the per-service client cache (ElasticsearchService),   *)
(* the query builders and the tool handlers with their awaits on the       *)
(* document store.                                                         *)
(***************************************************************************)
EXTENDS Integers, Sequences, FiniteSets, TLC

\* JavaScript's undefined: an optional parameter or field that is absent.
None == "undefined"

\* JavaScript truthiness of an optional string: undefined and "" are falsy.
Truthy(s) == s # None /\ s # ""

Min(a, b) == IF a <= b THEN a ELSE b

RECURSIVE SeqToSet(_)
SeqToSet(s) == IF s = <<>> THEN {} ELSE {Head(s)} \cup SeqToSet(Tail(s))

\* Array.prototype.slice(0, n)
Slice0(s, n) == SubSeq(s, 1, Min(n, Len(s)))

(***************************************************************************)
(* Bounds of the model.                                                    *)
(***************************************************************************)
\* concurrent tool calls (handler invocations) that one behaviour holds
MaxReq == 2
\* documents a store reply carries at most
MaxHits == 2
\* the earliest clock reading, in milliseconds
NowBase == 700000000
\* the clock readings following NowBase
ClockSteps == 1

(***************************************************************************)
(* teams-config.json: the tenant registry the ConfigManager loads.         *)
(* defaultEnvironment, maxSearchResults, allowedOperations and the logs     *)
(* index patterns are optional: an absent string is None, an absent number *)
(* is 0 (both falsy), an absent array is <<>> and a present one <<array>>. *)
(* Team ids and environment names are any keys of the JSON file: the file  *)
(* is not checked for the characters of its keys.                          *)
(***************************************************************************)
EnvCfg(node) == [node |-> node]

TeamsFile ==
  [ alpha |->
      [ teamId |-> "alpha", teamName |-> "Team Alpha",
        defaultEnvironment |-> "production",
        environments |-> [ staging |-> EnvCfg("https://alpha-staging"),
                           production |-> EnvCfg("https://alpha-prod") ],
        maxSearchResults |-> 50,
        indexPatterns |-> [ exceptions |-> <<"alpha-logs-*", "alpha-exceptions-*">>,
                            applications |-> <<"alpha-apm-*">>,
                            logs |-> << <<"alpha-app-logs-*">> >> ],
        allowedOperations |->
          << {"search_exceptions", "analyze_exceptions", "search_logs"} >> ],
    beta |->
      [ teamId |-> "beta", teamName |-> "Team Beta",
        defaultEnvironment |-> None,
        environments |-> [ staging |-> EnvCfg("https://beta-staging") ],
        maxSearchResults |-> 1,
        indexPatterns |-> [ exceptions |-> <<"beta-logs-*">>,
                            applications |-> <<"beta-apm-*">>,
                            logs |-> <<>> ],
        allowedOperations |-> << {"search_exceptions", "search_logs"} >> ],
    gamma |->
      [ teamId |-> "gamma", teamName |-> "Team Gamma",
        defaultEnvironment |-> "production",
        environments |-> [ production |-> EnvCfg("https://gamma-prod") ],
        maxSearchResults |-> 0,
        indexPatterns |-> [ exceptions |-> <<"gamma-errors-*">>,
                            applications |-> <<"gamma-apm-*">>,
                            logs |-> << <<"gamma-logs-*">> >> ],
        allowedOperations |-> <<>> ] ]
  @@ ( "eu" :>
         [ teamId |-> "eu", teamName |-> "Team Europe",
           defaultEnvironment |-> "west:prod",
           environments |-> ("west:prod" :> EnvCfg("https://eu-west-prod")),
           maxSearchResults |-> 50,
           indexPatterns |-> [ exceptions |-> <<"eu-logs-*">>,
                               applications |-> <<"eu-apm-*">>,
                               logs |-> <<>> ],
           allowedOperations |-> <<>> ] )
  @@ ( "eu:west" :>
         [ teamId |-> "eu:west", teamName |-> "Team Europe West",
           defaultEnvironment |-> "prod",
           environments |-> [ prod |-> EnvCfg("https://euwest-prod") ],
           maxSearchResults |-> 50,
           indexPatterns |-> [ exceptions |-> <<"euwest-logs-*">>,
                               applications |-> <<"euwest-apm-*">>,
                               logs |-> <<>> ],
           allowedOperations |-> <<>> ] )

\* ConfigManager.getTeamConfig: the team's configuration, or a throw.
TeamKnown(teamId) == teamId \in DOMAIN TeamsFile

getTeamConfig(teamId) == TeamsFile[teamId]

\* The handlers' governance test:
\*   teamConfig.allowedOperations && !teamConfig.allowedOperations.includes(op)
OperationDenied(teamConfig, op) ==
  /\ teamConfig.allowedOperations # <<>>
  /\ op \notin teamConfig.allowedOperations[1]

(***************************************************************************)
(* ElasticsearchService: the client cache.                                 *)
(* A cache is a function from client keys to handles; a handle is the      *)
(* index of its construction in the sequence of all clients constructed.   *)
(***************************************************************************)
getClientKey(teamId, environment) == teamId \o ":" \o environment

EmptyCache == <<>>

\* getClient(teamId, environment?) on the cache cl, when n clients have been
\* constructed so far.  err is None when a handle is returned; made is the
\* sequence of clients constructed by this call (at most one).
GetClientThrow(cl, kind) ==
  [err |-> kind, clients |-> cl, handle |-> 0, key |-> None, env |-> None, made |-> <<>>]

\* getClient without the fallback to the team's defaultEnvironment
getClientWithoutDefault(cl, n, svc, teamId, environment) ==
  IF ~TeamKnown(teamId) THEN GetClientThrow(cl, "TeamNotFound")
  ELSE
    LET teamConfig == getTeamConfig(teamId) IN
    IF ~Truthy(environment) THEN GetClientThrow(cl, "NoEnvironment")
    ELSE IF environment \notin DOMAIN teamConfig.environments
      THEN GetClientThrow(cl, "EnvironmentNotFound")
    ELSE
      LET clientKey == getClientKey(teamId, environment) IN
      IF clientKey \notin DOMAIN cl
        THEN [err |-> None, clients |-> cl @@ (clientKey :> n + 1),
              handle |-> n + 1, key |-> clientKey, env |-> environment,
              made |-> << [key |-> clientKey, svc |-> svc,
                           node |-> teamConfig.environments[environment].node] >>]
        ELSE [err |-> None, clients |-> cl, handle |-> cl[clientKey],
              key |-> clientKey, env |-> environment, made |-> <<>>]

getClient(cl, n, svc, teamId, environment) ==
  IF ~TeamKnown(teamId) THEN GetClientThrow(cl, "TeamNotFound")
  ELSE
    LET teamConfig == getTeamConfig(teamId)
        env == IF Truthy(environment) THEN environment
               ELSE teamConfig.defaultEnvironment
    IN  IF ~Truthy(env) THEN GetClientThrow(cl, "NoEnvironment")
        ELSE IF env \notin DOMAIN teamConfig.environments
          THEN GetClientThrow(cl, "EnvironmentNotFound")
        ELSE
          LET clientKey == getClientKey(teamId, env) IN
          IF clientKey \notin DOMAIN cl
            THEN [err |-> None, clients |-> cl @@ (clientKey :> n + 1),
                  handle |-> n + 1, key |-> clientKey, env |-> env,
                  made |-> << [key |-> clientKey, svc |-> svc,
                               node |-> teamConfig.environments[env].node] >>]
            ELSE [err |-> None, clients |-> cl, handle |-> cl[clientKey],
                  key |-> clientKey, env |-> env, made |-> <<>>]

(***************************************************************************)
(* Text.  A message is a sequence of one-character strings, so that the    *)
(* code's character operations can be computed; Cat gives its string.      *)
(***************************************************************************)
RECURSIVE Cat(_)
Cat(cs) == IF cs = <<>> THEN "" ELSE Head(cs) \o Cat(Tail(cs))

UpperLetters ==
  << "A", "B", "C", "D", "E", "F", "G", "H", "I", "J", "K", "L", "M",
     "N", "O", "P", "Q", "R", "S", "T", "U", "V", "W", "X", "Y", "Z" >>

LowerLetters ==
  << "a", "b", "c", "d", "e", "f", "g", "h", "i", "j", "k", "l", "m",
     "n", "o", "p", "q", "r", "s", "t", "u", "v", "w", "x", "y", "z" >>

DigitChars == {"0", "1", "2", "3", "4", "5", "6", "7", "8", "9"}

\* String.prototype.toLowerCase, character by character
LowerChar(c) ==
  IF \E i \in 1..26 : UpperLetters[i] = c
    THEN LowerLetters[CHOOSE i \in 1..26 : UpperLetters[i] = c]
    ELSE c

toLowerCase(cs) == [i \in 1..Len(cs) |-> LowerChar(cs[i])]

\* the regular expression classes \w and \s
IsWordChar(c) ==
  c \in SeqToSet(UpperLetters) \cup SeqToSet(LowerLetters) \cup DigitChars \cup {"_"}

IsSpaceChar(c) == c \in {" ", "\t", "\n"}

\* .replace(/[^\w\s]/g, ' ')
StripSpecial(cs) ==
  [i \in 1..Len(cs) |-> IF IsWordChar(cs[i]) \/ IsSpaceChar(cs[i]) THEN cs[i] ELSE " "]

\* .split(/\s+/): the pieces between maximal runs of white space; a leading
\* or trailing run leaves an empty first or last piece.
RECURSIVE SplitFrom(_, _, _)
SplitFrom(cs, i, cur) ==
  IF i > Len(cs) THEN << cur >>
  ELSE IF IsSpaceChar(cs[i])
    THEN IF i > 1 /\ IsSpaceChar(cs[i - 1])
           THEN SplitFrom(cs, i + 1, cur)
           ELSE << cur >> \o SplitFrom(cs, i + 1, <<>>)
    ELSE SplitFrom(cs, i + 1, Append(cur, cs[i]))

SplitSpaces(cs) == SplitFrom(cs, 1, <<>>)

stopWords ==
  { "the", "is", "at", "of", "on", "in", "to", "for", "and", "or", "but", "be",
    "been", "have", "has", "had", "do", "does", "did", "will", "would", "should",
    "could", "can", "may", "might", "must", "shall" }

\* Array.prototype.indexOf (1-based; 0 when absent)
RECURSIVE IndexOfFrom(_, _, _)
IndexOfFrom(arr, x, i) ==
  IF i > Len(arr) THEN 0
  ELSE IF arr[i] = x THEN i ELSE IndexOfFrom(arr, x, i + 1)

indexOf(arr, x) == IndexOfFrom(arr, x, 1)

\* Array.prototype.join(' ') of terms
RECURSIVE JoinSpace(_)
JoinSpace(terms) ==
  IF terms = <<>> THEN <<>>
  ELSE IF Len(terms) = 1 THEN terms[1]
  ELSE terms[1] \o << " " >> \o JoinSpace(Tail(terms))

\* extractKeyTerms(message): the terms are sequences of characters
extractKeyTerms(message) ==
  LET tokens == SplitSpaces(StripSpecial(toLowerCase(message)))
      kept == SelectSeq(tokens, LAMBDA term : Len(term) > 2 /\ Cat(term) \notin stopWords)
      idx == { i \in 1..Len(kept) : indexOf(kept, kept[i]) = i }
      RECURSIVE Pick(_)
      Pick(i) == IF i > Len(kept) THEN <<>>
                 ELSE IF i \in idx THEN << kept[i] >> \o Pick(i + 1) ELSE Pick(i + 1)
  IN  Slice0(Pick(1), 5)

(***************************************************************************)
(* Time.  A Date is its epoch milliseconds.  date-fns format with          *)
(* "yyyy-MM-dd'T'HH:mm:ss.SSSxxx" prints the instant to the millisecond:   *)
(* the printed stamp is modelled as <<seconds, milliseconds>>, and an       *)
(* absent bound as <<>>.                                                   *)
(***************************************************************************)
NoStamp == <<>>

format(t) == << t \div 1000, t % 1000 >>

\* the instant a printed stamp denotes
StampMs(stamp) == stamp[1] * 1000 + stamp[2]

MsPerHour == 60 * 60 * 1000

\* date-fns subDays(date, amount): amount is cut to an integer and the
\* calendar day is moved back in local time, so the instant moves by
\* 24 h per day plus the change dst of the local UTC offset between the two
\* days.  The amount is given in hundredths of a day.
subDays(t, hundredths, dst) ==
  LET amount == hundredths \div 100
  IN  IF amount = 0 THEN t ELSE t - amount * 24 * MsPerHour + dst

\* Names every object literal inherits from Object.prototype: looking one up
\* in a literal yields the inherited member, which is truthy.
InheritedKeys == {"constructor", "toString", "valueOf", "hasOwnProperty", "__proto__"}

\* { '1h': 1, '6h': 6, '12h': 12, '24h': 24, '7d': 168 }[timeframe] || 24,
\* as <<hours>>; <<>> stands for a value that is not a number.
timeRangeHours(timeframe) ==
  CASE timeframe = "1h" -> << 1 >>
    [] timeframe = "6h" -> << 6 >>
    [] timeframe = "12h" -> << 12 >>
    [] timeframe = "24h" -> << 24 >>
    [] timeframe = "7d" -> << 168 >>
    [] timeframe \in InheritedKeys -> <<>>
    [] OTHER -> << 24 >>

(***************************************************************************)
(* Queries.  A clause of a boolean query, an aggregation and the search     *)
(* parameters handed to client.search are records with the same fields;    *)
(* a field a clause does not use is None (text), <<>> (stamp) or 0.        *)
(***************************************************************************)
Range(gte, lt, lte) ==
  [type |-> "range", field |-> "@timestamp", value |-> None,
   gte |-> gte, lt |-> lt, lte |-> lte, size |-> 0]

Term(field, value) ==
  [type |-> "term", field |-> field, value |-> value,
   gte |-> NoStamp, lt |-> NoStamp, lte |-> NoStamp, size |-> 0]

MultiMatch(kind, fields, text) ==
  [type |-> kind, field |-> fields, value |-> text,
   gte |-> NoStamp, lt |-> NoStamp, lte |-> NoStamp, size |-> 0]

\* the clause { bool: { should: [exists error.message, exists
\* exception.message, term log.level ERROR], minimum_should_match: 1 } }
ErrorMarker ==
  [type |-> "error_marker", field |-> "error.message|exception.message|log.level",
   value |-> "ERROR", gte |-> NoStamp, lt |-> NoStamp, lte |-> NoStamp, size |-> 0]

Agg(name, type, size, gte, lt, lte) ==
  [type |-> type, field |-> name, value |-> None,
   gte |-> gte, lt |-> lt, lte |-> lte, size |-> size]

SearchParams(index, must, filter, size, sorted, aggs) ==
  [index |-> index, must |-> must, filter |-> filter, size |-> size,
   sort |-> sorted, aggs |-> aggs]

NoParams == SearchParams(<<>>, <<>>, <<>>, 0, FALSE, <<>>)

\* A tool call's filters (SearchFilters).  An absent timeRange is <<>> and a
\* given one << [start, end] >>; message and severity are texts, <<>> when
\* absent or empty.
Filters(environment, timeRange, timeframe, severity, service, message, limit, sortByFrequency) ==
  [environment |-> environment, timeRange |-> timeRange, timeframe |-> timeframe,
   severity |-> severity, service |-> service, message |-> message,
   limit |-> limit, sortByFrequency |-> sortByFrequency]

\* a time filter that puts the bounds of a given timeRange in order
TimeRangeFilterOrdered(filters, now, defaultDays100, dst) ==
  IF filters.timeRange # <<>>
    THEN LET a == filters.timeRange[1].start
             b == filters.timeRange[1].end
         IN  IF StampMs(a) <= StampMs(b) THEN Range(a, NoStamp, b) ELSE Range(b, NoStamp, a)
    ELSE Range(format(subDays(now, defaultDays100, dst)), NoStamp, NoStamp)

\* the time filter of searchExceptions, analyzeExceptions and searchLogs
TimeRangeFilter(filters, now, defaultDays100, dst) ==
  IF filters.timeRange # <<>>
    THEN Range(filters.timeRange[1].start, NoStamp, filters.timeRange[1].end)
    ELSE Range(format(subDays(now, defaultDays100, dst)), NoStamp, NoStamp)

\* teamConfig.maxSearchResults || 50
ResultSize(teamConfig) ==
  IF teamConfig.maxSearchResults # 0 THEN teamConfig.maxSearchResults ELSE 50

\* searchExceptions: the searchParams built from the filters
searchExceptionsParams(teamConfig, filters, now, dst) ==
  SearchParams(
    teamConfig.indexPatterns.exceptions,
    IF filters.message # <<>>
      THEN << MultiMatch("best_fields", "message|error.message|exception.message",
                         Cat(filters.message)) >>
      ELSE <<>>,
    << TimeRangeFilter(filters, now, 100, dst) >>
      \o (IF filters.severity # <<>>
            THEN << Term("log.level", Cat(toLowerCase(filters.severity))) >> ELSE <<>>)
      \o (IF Truthy(filters.service)
            THEN << Term("service.name", filters.service) >> ELSE <<>>),
    ResultSize(teamConfig), TRUE, <<>>)

\* analyzeExceptions
analyzeExceptionsParams(teamConfig, filters, now, dst) ==
  SearchParams(
    teamConfig.indexPatterns.exceptions,
    <<>>,
    << TimeRangeFilter(filters, now, 700, dst) >>,
    0, FALSE,
    << Agg("total_count", "value_count", 0, NoStamp, NoStamp, NoStamp),
       Agg("unique_exceptions", "cardinality", 0, NoStamp, NoStamp, NoStamp),
       Agg("top_exceptions", "terms", 10, NoStamp, NoStamp, NoStamp),
       Agg("time_distribution", "date_histogram", 0, NoStamp, NoStamp, NoStamp) >>)

\* searchLogs
searchLogsParams(teamConfig, filters, now, dst) ==
  SearchParams(
    teamConfig.indexPatterns.applications
      \o (IF teamConfig.indexPatterns.logs # <<>>
            THEN teamConfig.indexPatterns.logs[1] ELSE <<>>),
    IF filters.message # <<>>
      THEN << MultiMatch("best_fields", "message|log.message", Cat(filters.message)) >>
      ELSE <<>>,
    << TimeRangeFilter(filters, now, 4, dst) >>
      \o (IF Truthy(filters.service)
            THEN << Term("service.name", filters.service) >> ELSE <<>>),
    ResultSize(teamConfig), TRUE, <<>>)

\* "Convert timeframe to date range": timeRangeHours, now and timeRangeStart.
\* With hours that are not a number timeRangeStart is an Invalid Date, and
\* format throws a RangeError when the query is built.
TimeframeWindow(timeframe, now) ==
  LET hours == timeRangeHours(IF timeframe = None THEN "24h" ELSE timeframe)
  IN  IF hours = <<>>
        THEN [err |-> "RangeError", start |-> 0, end |-> now]
        ELSE [err |-> None, start |-> now - hours[1] * MsPerHour, end |-> now]

Built(err, params) == [err |-> err, params |-> params]

\* searchFrequentExceptions
searchFrequentExceptionsParams(teamConfig, timeframe, limit, filters, now) ==
  LET w == TimeframeWindow(timeframe, now) IN
  IF w.err # None THEN Built(w.err, NoParams)
  ELSE Built(None, SearchParams(
         teamConfig.indexPatterns.exceptions,
         << Range(format(w.start), NoStamp, format(w.end)), ErrorMarker >>,
         IF Truthy(filters.service)
           THEN << Term("service.name", filters.service) >> ELSE <<>>,
         0, FALSE,
         << Agg("frequent_exceptions", "terms", limit, NoStamp, NoStamp, NoStamp) >>))

\* searchExceptionsByContext
searchExceptionsByContextParams(teamConfig, query, timeframe, filters, now) ==
  LET w == TimeframeWindow(timeframe, now) IN
  IF w.err # None THEN Built(w.err, NoParams)
  ELSE Built(None, SearchParams(
         teamConfig.indexPatterns.exceptions,
         << Range(format(w.start), NoStamp, format(w.end)),
            MultiMatch("best_fields",
              "error.message|exception.message|error.stack_trace|exception.stacktrace|message",
              Cat(query)) >>,
         IF Truthy(filters.service)
           THEN << Term("service.name", filters.service) >> ELSE <<>>,
         20, TRUE, <<>>))

\* analyzeSpecificException
analyzeSpecificExceptionParams(teamConfig, exceptionMessage, timeframe, now) ==
  LET w == TimeframeWindow(timeframe, now) IN
  IF w.err # None THEN Built(w.err, NoParams)
  ELSE Built(None, SearchParams(
         teamConfig.indexPatterns.exceptions,
         << Range(format(w.start), NoStamp, format(w.end)),
            MultiMatch("phrase", "error.message|exception.message|message",
                       Cat(exceptionMessage)) >>,
         <<>>,
         100, TRUE,
         << Agg("affected_services", "terms", 10, NoStamp, NoStamp, NoStamp),
            Agg("time_distribution", "date_histogram", 0, NoStamp, NoStamp, NoStamp) >>))

\* getServiceExceptionTrends: the window is split at its midpoint
getServiceExceptionTrendsParams(teamConfig, timeframe, now) ==
  LET w == TimeframeWindow(timeframe, now) IN
  IF w.err # None THEN Built(w.err, NoParams)
  ELSE
    LET midPoint == w.start + (w.end - w.start) \div 2 IN
    Built(None, SearchParams(
      teamConfig.indexPatterns.exceptions,
      << Range(format(w.start), NoStamp, format(w.end)), ErrorMarker >>,
      <<>>,
      0, FALSE,
      << Agg("services", "terms", 10, NoStamp, NoStamp, NoStamp),
         Agg("first_half", "filter", 0, format(w.start), format(midPoint), NoStamp),
         Agg("second_half", "filter", 0, format(midPoint), NoStamp, format(w.end)),
         Agg("top_exceptions", "terms", 5, NoStamp, NoStamp, NoStamp) >>))

(***************************************************************************)
(* The state.                                                              *)
(*   req      each tool call (handler invocation): its position, its       *)
(*            arguments, the promises of the service methods it has        *)
(*            called, and its response;                                    *)
(*   clients  the clients map of each ElasticsearchService; every handler  *)
(*            invocation r constructs its own service, service r;          *)
(*   created  every Client constructed so far, in order of construction;   *)
(*            a handle is an index into it;                                *)
(*   acq      the outcome of the latest getClient call made directly on    *)
(*            service 1 (the connection cache taken alone);                *)
(*   releases one record per closeAllConnections call, in order;           *)
(*   http     the HTTP server: its two session stores, the SSE connections *)
(*            and the latest POST to the messages path;                    *)
(*   exited   process.exit has been called.                                *)
(***************************************************************************)
VARIABLES req, clients, created, acq, cm, releases, http, exited

vars == << req, clients, created, acq, cm, releases, http, exited >>

ReqIds == 1..MaxReq

\* the clock readings a call can make
Times == NowBase..(NowBase + ClockSteps)

\* the change of the local UTC offset between two calendar days
DstShifts == {0, MsPerHour, 0 - MsPerHour}

\* The arguments of a tool call, after the tool's zod schema has filled in
\* its defaults (limit 20, sortByFrequency false, smartSearch true,
\* timeframe '24h' and analysisType 'both' for the analysis tools).
Args(environment, message, query, service, severity, timeRange, timeframe, limit, sortByFrequency, smartSearch, analysisType, exceptionMessage) ==
  [environment |-> environment, message |-> message, query |-> query,
   service |-> service, severity |-> severity, timeRange |-> timeRange,
   timeframe |-> timeframe, limit |-> limit, sortByFrequency |-> sortByFrequency,
   smartSearch |-> smartSearch, analysisType |-> analysisType,
   exceptionMessage |-> exceptionMessage]

NoArgs == Args(None, <<>>, <<>>, None, <<>>, <<>>, None, 20, FALSE, TRUE, None, <<>>)

\* a || b on texts
OrText(a, b) == IF a # <<>> THEN a ELSE b

\* The promise of one service-method call.  status is pending while the
\* store request is in flight, then fulfilled or rejected; a call whose
\* synchronous part throws is rejected at once and sends nothing.  seq is the
\* position of the call's answer among the answers to its tool call; aggs is
\* response.aggregations as received and value what an aggregating method
\* returned.
Call(method, status, err, handle, key, params, now) ==
  [method |-> method, status |-> status, err |-> err, handle |-> handle,
   key |-> key, params |-> params, now |-> now, hits |-> <<>>, connected |-> FALSE,
   seq |-> 0, aggs |-> <<>>, value |-> <<>>]

\* what a service method leaves behind: the service's cache, the clients it
\* constructed and its promise
Issued(cl, made, call) == [clients |-> cl, made |-> made, call |-> call]

\* searchExceptions(teamId, filters) up to its await of client.search
searchExceptions(cl, n, svc, teamId, filters, now, dst) ==
  LET g == getClient(cl, n, svc, teamId, filters.environment) IN
  IF g.err # None
    THEN Issued(cl, <<>>, Call("searchExceptions", "rejected", g.err, 0, None, NoParams, now))
    ELSE Issued(g.clients, g.made,
           Call("searchExceptions", "pending", None, g.handle, g.key,
                searchExceptionsParams(getTeamConfig(teamId), filters, now, dst), now))

\* analyzeExceptions(teamId, filters) up to its await
analyzeExceptions(cl, n, svc, teamId, filters, now, dst) ==
  LET g == getClient(cl, n, svc, teamId, filters.environment) IN
  IF g.err # None
    THEN Issued(cl, <<>>, Call("analyzeExceptions", "rejected", g.err, 0, None, NoParams, now))
    ELSE Issued(g.clients, g.made,
           Call("analyzeExceptions", "pending", None, g.handle, g.key,
                analyzeExceptionsParams(getTeamConfig(teamId), filters, now, dst), now))

\* searchLogs(teamId, filters) up to its await
searchLogs(cl, n, svc, teamId, filters, now, dst) ==
  LET g == getClient(cl, n, svc, teamId, filters.environment) IN
  IF g.err # None
    THEN Issued(cl, <<>>, Call("searchLogs", "rejected", g.err, 0, None, NoParams, now))
    ELSE Issued(g.clients, g.made,
           Call("searchLogs", "pending", None, g.handle, g.key,
                searchLogsParams(getTeamConfig(teamId), filters, now, dst), now))

\* a method that converts a timeframe: the client is acquired before the
\* query is built, so a throw of the builder leaves the client in the cache
TimeframeCall(method, cl, n, svc, teamId, environment, built, now) ==
  LET g == getClient(cl, n, svc, teamId, environment) IN
  IF g.err # None
    THEN Issued(cl, <<>>, Call(method, "rejected", g.err, 0, None, NoParams, now))
    ELSE IF built.err # None
      THEN Issued(g.clients, g.made,
             Call(method, "rejected", built.err, g.handle, g.key, NoParams, now))
      ELSE Issued(g.clients, g.made,
             Call(method, "pending", None, g.handle, g.key, built.params, now))

\* analyzeSpecificException(teamId, exceptionMessage, timeframe, filters)
analyzeSpecificException(cl, n, svc, teamId, exceptionMessage, timeframe, filters, now) ==
  IF ~TeamKnown(teamId)
    THEN Issued(cl, <<>>, Call("analyzeSpecificException", "rejected", "TeamNotFound",
                               0, None, NoParams, now))
    ELSE TimeframeCall("analyzeSpecificException", cl, n, svc, teamId, filters.environment,
           analyzeSpecificExceptionParams(getTeamConfig(teamId), exceptionMessage,
                                          timeframe, now), now)

\* getServiceExceptionTrends(teamId, timeframe, filters)
getServiceExceptionTrends(cl, n, svc, teamId, timeframe, filters, now) ==
  IF ~TeamKnown(teamId)
    THEN Issued(cl, <<>>, Call("getServiceExceptionTrends", "rejected", "TeamNotFound",
                               0, None, NoParams, now))
    ELSE TimeframeCall("getServiceExceptionTrends", cl, n, svc, teamId, filters.environment,
           getServiceExceptionTrendsParams(getTeamConfig(teamId), timeframe, now), now)

\* searchFrequentExceptions(teamId, timeframe, limit, filters)
searchFrequentExceptions(cl, n, svc, teamId, timeframe, limit, filters, now) ==
  IF ~TeamKnown(teamId)
    THEN Issued(cl, <<>>, Call("searchFrequentExceptions", "rejected", "TeamNotFound",
                               0, None, NoParams, now))
    ELSE TimeframeCall("searchFrequentExceptions", cl, n, svc, teamId, filters.environment,
           searchFrequentExceptionsParams(getTeamConfig(teamId), timeframe, limit,
                                          filters, now), now)

\* searchExceptionsByContext(teamId, query, timeframe, filters)
searchExceptionsByContext(cl, n, svc, teamId, query, timeframe, filters, now) ==
  IF ~TeamKnown(teamId)
    THEN Issued(cl, <<>>, Call("searchExceptionsByContext", "rejected", "TeamNotFound",
                               0, None, NoParams, now))
    ELSE TimeframeCall("searchExceptionsByContext", cl, n, svc, teamId, filters.environment,
           searchExceptionsByContextParams(getTeamConfig(teamId), query, timeframe,
                                           filters, now), now)

\* testConnection(teamId, environment): a throw of getClient is caught and
\* the promise is fulfilled with false
testConnection(cl, n, svc, teamId, environment, now) ==
  LET g == getClient(cl, n, svc, teamId, environment) IN
  IF g.err # None
    THEN Issued(cl, <<>>, Call("testConnection", "fulfilled", g.err, 0, None, NoParams, now))
    ELSE Issued(g.clients, g.made,
           Call("testConnection", "pending", None, g.handle, g.key, NoParams, now))

(***************************************************************************)
(* The tool handlers.  A handler runs without interruption up to its next  *)
(* await: from the call to the requests it sends to the store (ToolCall    *)
(* actions), and from the settling of what it awaits to its response       *)
(* (Resume).  In between, the store answers each request (StoreReply).     *)
(***************************************************************************)
Idle ==
  [pc |-> "idle", tool |-> None, teamId |-> None, p |-> NoArgs, calls |-> <<>>,
   outcome |-> "none", err |-> None, environment |-> None, results |-> <<>>,
   connected |-> FALSE]

\* the handler's catch block: { success: false, error }, isError
ErrorResponse(rq, err) ==
  [rq EXCEPT !.pc = "done", !.outcome = "error", !.err = err]

\* a handler's { success: true, teamId, environment, ... }
SuccessResponse(rq, results, connected) ==
  [rq EXCEPT !.pc = "done", !.outcome = "success",
             !.environment = IF Truthy(rq.p.environment) THEN rq.p.environment
                             ELSE getTeamConfig(rq.teamId).defaultEnvironment,
             !.results = results, !.connected = connected]

\* the operation name a tool checks against allowedOperations; the
\* test_connection handler makes no such check
GovernedAs(tool) ==
  CASE tool = "search_exceptions" -> "search_exceptions"
    [] tool = "smart_search_exceptions" -> "search_exceptions"
    [] tool = "search_logs" -> "search_logs"
    [] tool = "analyze_exception" -> "analyze_exception"
    [] tool = "analyze_trends" -> "analyze_trends"
    [] OTHER -> None

\* "Validate team exists" and "Check if operation is allowed for this team":
\* the error thrown, or None
HandlerGate(tool, teamId) ==
  IF ~TeamKnown(teamId) THEN "TeamNotFound"
  ELSE IF GovernedAs(tool) # None /\ OperationDenied(getTeamConfig(teamId), GovernedAs(tool))
    THEN "NotAllowed"
  ELSE None

Entered(r, tool, teamId, p) ==
  [req[r] EXCEPT !.tool = tool, !.teamId = teamId, !.p = p]

\* the handler goes to its await with the promises it has made
Await(r, rq, issuedClients, made, calls) ==
  /\ req' = [req EXCEPT ![r] = [rq EXCEPT !.pc = "awaiting", !.calls = calls]]
  /\ clients' = [clients EXCEPT ![r] = issuedClients]
  /\ created' = created \o made

Throw(r, rq, err) ==
  /\ req' = [req EXCEPT ![r] = ErrorResponse(rq, err)]
  /\ UNCHANGED << clients, created >>

\* the filters of the standard search
StandardFilters(p) ==
  Filters(p.environment, p.timeRange, p.timeframe, p.severity, p.service,
          OrText(p.message, p.query), p.limit, p.sortByFrequency)

\* { ...params, message }
SpreadFilters(p, message) ==
  Filters(p.environment, p.timeRange, p.timeframe, p.severity, p.service,
          message, p.limit, p.sortByFrequency)

\* search_exceptions (search-exceptions-tool.ts)
CallSearchExceptions(r, teamId, p, now, dst) ==
  /\ req[r].pc = "idle"
  /\ LET rq == Entered(r, "search_exceptions", teamId, p)
         gate == HandlerGate("search_exceptions", teamId)
     IN  IF gate # None THEN Throw(r, rq, gate)
         ELSE LET i == searchExceptions(clients[r], Len(created), r, teamId,
                                        StandardFilters(p), now, dst)
              IN  Await(r, rq, i.clients, i.made, << i.call >>)
  /\ UNCHANGED << acq, cm, releases, http, exited >>

\* The messages of the smart search's strategies: the quoted phrase, the key
\* terms, the first important word.
\* the strategies with the last of the longer terms for the third search
SmartMessagesLastStrong(searchTerm) ==
  LET keyTerms == extractKeyTerms(searchTerm)
      importantWords == SelectSeq(keyTerms, LAMBDA term : Len(term) > 4)
  IN  << << "\"" >> \o searchTerm \o << "\"" >> >>
        \o (IF Len(keyTerms) > 0 THEN << JoinSpace(keyTerms) >> ELSE <<>>)
        \o (IF Len(importantWords) > 0 THEN << importantWords[Len(importantWords)] >> ELSE <<>>)

\* the messages of the strategies, in the order their searches are made
SmartMessages(searchTerm) ==
  LET keyTerms == extractKeyTerms(searchTerm)
      importantWords == SelectSeq(keyTerms, LAMBDA term : Len(term) > 4)
  IN  << << "\"" >> \o searchTerm \o << "\"" >> >>
        \o (IF Len(keyTerms) > 0 THEN << JoinSpace(keyTerms) >> ELSE <<>>)
        \o (IF Len(importantWords) > 0 THEN << importantWords[1] >> ELSE <<>>)

\* searchPromises: one searchExceptions call per strategy, made in order on
\* the same service
RECURSIVE SearchPromises(_, _, _, _, _, _, _, _)
SearchPromises(cl, n, svc, teamId, p, messages, now, dst) ==
  IF messages = <<>> THEN [clients |-> cl, made |-> <<>>, calls |-> <<>>]
  ELSE LET i == searchExceptions(cl, n, svc, teamId, SpreadFilters(p, Head(messages)),
                                 now, dst)
           rest == SearchPromises(i.clients, n + Len(i.made), svc, teamId, p,
                                  Tail(messages), now, dst)
       IN  [clients |-> rest.clients, made |-> i.made \o rest.made,
            calls |-> << i.call >> \o rest.calls]

IsSmart(p) == p.smartSearch /\ OrText(p.message, p.query) # <<>>

\* search_exceptions with the smart search
CallSmartSearchExceptions(r, teamId, p, now, dst) ==
  /\ req[r].pc = "idle"
  /\ LET rq == Entered(r, "smart_search_exceptions", teamId, p)
         gate == HandlerGate("smart_search_exceptions", teamId)
     IN  IF gate # None THEN Throw(r, rq, gate)
         ELSE IF IsSmart(p)
           THEN LET i == SearchPromises(clients[r], Len(created), r, teamId, p,
                                        SmartMessages(OrText(p.message, p.query)), now, dst)
                IN  Await(r, rq, i.clients, i.made, i.calls)
           ELSE LET i == searchExceptions(clients[r], Len(created), r, teamId,
                                          StandardFilters(p), now, dst)
                IN  Await(r, rq, i.clients, i.made, << i.call >>)
  /\ UNCHANGED << acq, cm, releases, http, exited >>

\* search_logs
CallSearchLogs(r, teamId, p, now, dst) ==
  /\ req[r].pc = "idle"
  /\ LET rq == Entered(r, "search_logs", teamId, p)
         gate == HandlerGate("search_logs", teamId)
     IN  IF gate # None THEN Throw(r, rq, gate)
         ELSE LET i == searchLogs(clients[r], Len(created), r, teamId,
                         Filters(p.environment, p.timeRange, None, <<>>, p.service,
                                 p.message, 0, FALSE), now, dst)
              IN  Await(r, rq, i.clients, i.made, << i.call >>)
  /\ UNCHANGED << acq, cm, releases, http, exited >>

\* analyze_exception
CallAnalyzeException(r, teamId, p, now) ==
  /\ req[r].pc = "idle"
  /\ LET rq == Entered(r, "analyze_exception", teamId, p)
         gate == HandlerGate("analyze_exception", teamId)
     IN  IF gate # None THEN Throw(r, rq, gate)
         ELSE LET i == analyzeSpecificException(clients[r], Len(created), r, teamId,
                         p.exceptionMessage, p.timeframe,
                         Filters(p.environment, <<>>, None, <<>>, None, <<>>, 0, FALSE), now)
              IN  Await(r, rq, i.clients, i.made, << i.call >>)
  /\ UNCHANGED << acq, cm, releases, http, exited >>

\* the filters analyze_trends passes to the two service methods
TrendFilters(p, withRange) ==
  Filters(p.environment, IF withRange THEN p.timeRange ELSE <<>>, None, <<>>, None,
          <<>>, 0, FALSE)

\* analyze_trends, up to its first await
CallAnalyzeTrends(r, teamId, p, now, dst) ==
  /\ req[r].pc = "idle"
  /\ LET rq == Entered(r, "analyze_trends", teamId, p)
         gate == HandlerGate("analyze_trends", teamId)
     IN  IF gate # None THEN Throw(r, rq, gate)
         ELSE IF p.analysisType \in {"exceptions", "both"}
           THEN LET i == analyzeExceptions(clients[r], Len(created), r, teamId,
                                           TrendFilters(p, TRUE), now, dst)
                IN  Await(r, rq, i.clients, i.made, << i.call >>)
           ELSE LET i == getServiceExceptionTrends(clients[r], Len(created), r, teamId,
                                                   p.timeframe, TrendFilters(p, FALSE), now)
                IN  Await(r, rq, i.clients, i.made, << i.call >>)
  /\ UNCHANGED << acq, cm, releases, http, exited >>

\* test_connection
CallTestConnection(r, teamId, p, now) ==
  /\ req[r].pc = "idle"
  /\ LET rq == Entered(r, "test_connection", teamId, p)
         gate == HandlerGate("test_connection", teamId)
     IN  IF gate # None THEN Throw(r, rq, gate)
         ELSE LET i == testConnection(clients[r], Len(created), r, teamId,
                                      p.environment, now)
              IN  Await(r, rq, i.clients, i.made, << i.call >>)
  /\ UNCHANGED << acq, cm, releases, http, exited >>

(***************************************************************************)
(* The analysis of one exception (analyzeSpecificException after its       *)
(* search): the trend of the hourly histogram and the rule-based causes    *)
(* and solutions.                                                          *)
(***************************************************************************)
\* the characters of a string
Chars(str) == [i \in 1..Len(str) |-> SubSeq(str, i, i)]

\* String.prototype.includes
includes(cs, needle) ==
  \E i \in 1..(Len(cs) - Len(needle) + 1) : SubSeq(cs, i, i + Len(needle) - 1) = needle

\* reduce((sum, bucket) => sum + bucket.doc_count, 0)
RECURSIVE SumDocCount(_)
SumDocCount(buckets) ==
  IF buckets = <<>> THEN 0 ELSE Head(buckets).doc_count + SumDocCount(Tail(buckets))

\* The half sums and half lengths << s1, n1, s2, n2 >> for which the exact
\* change ((s2 / n2 - s1 / n1) / (s1 / n1)) * 100 is -10 or 10 and the
\* double-precision evaluation of that expression lies beyond the threshold,
\* among all histograms of up to 8 buckets with counts up to 3:
\* 5 / 3 = 1.6666666666666667, 6 / 4 = 1.5, change = -10.000000000000004.
ChangeRoundedPastThreshold == { << 5, 3, 6, 4 >> }

\* determineTrend(timeDistribution).  The averages are doubles: a zero
\* first average makes change Infinity (second average > 0) or NaN (both
\* zero), and NaN fails both comparisons.
determineTrend(timeDistribution) ==
  IF Len(timeDistribution) < 2 THEN "stable"
  ELSE
    LET half == Len(timeDistribution) \div 2
        firstHalf == SubSeq(timeDistribution, 1, half)
        secondHalf == SubSeq(timeDistribution, half + 1, Len(timeDistribution))
        s1 == SumDocCount(firstHalf)
        n1 == Len(firstHalf)
        s2 == SumDocCount(secondHalf)
        n2 == Len(secondHalf)
        num == (s2 * n1 - s1 * n2) * 100
        den == s1 * n2
    IN  IF s1 = 0 THEN (IF s2 > 0 THEN "increasing" ELSE "stable")
        ELSE IF << s1, n1, s2, n2 >> \in ChangeRoundedPastThreshold
          THEN (IF num > 0 THEN "increasing" ELSE "decreasing")
        ELSE IF num > 10 * den THEN "increasing"
        ELSE IF num < (0 - 10) * den THEN "decreasing"
        ELSE "stable"

\* the fallback of generatePossibleCauses
GenericCauses ==
  << "Code logic error or unexpected input", "External dependency failure",
     "Configuration mismatch" >>

\* a generator that adds the generic causes to whatever the rules gave
generatePossibleCausesWithGeneric(exceptionMessage) ==
  LET lower == toLowerCase(exceptionMessage)
      c1 == IF includes(lower, Chars("null"))
              THEN << "Null pointer or undefined variable access",
                      "Missing null checks in code" >>
              ELSE <<>>
      c2 == IF includes(lower, Chars("connection")) \/ includes(lower, Chars("network"))
              THEN << "Network connectivity issues",
                      "Database or external service unavailable",
                      "Timeout configuration too strict" >>
              ELSE <<>>
  IN  c1 \o c2 \o GenericCauses

\* generatePossibleCauses(exceptionMessage)
generatePossibleCauses(exceptionMessage) ==
  LET lower == toLowerCase(exceptionMessage)
      c1 == IF includes(lower, Chars("null"))
              THEN << "Null pointer or undefined variable access",
                      "Missing null checks in code" >>
              ELSE <<>>
      c2 == IF includes(lower, Chars("connection")) \/ includes(lower, Chars("network"))
              THEN c1 \o << "Network connectivity issues",
                            "Database or external service unavailable",
                            "Timeout configuration too strict" >>
              ELSE c1
      c3 == IF includes(lower, Chars("memory")) \/ includes(lower, Chars("heap"))
              THEN c2 \o << "Memory leak or insufficient heap size",
                            "Large data processing without proper cleanup" >>
              ELSE c2
      c4 == IF includes(lower, Chars("permission")) \/ includes(lower, Chars("access"))
              THEN c3 \o << "Insufficient permissions or access rights",
                            "Authentication or authorization failure" >>
              ELSE c3
  IN  IF Len(c4) = 0 THEN GenericCauses ELSE c4

\* the fallback of generateSuggestedSolutions
GenericSolutions ==
  << "Add comprehensive logging around the error location",
     "Implement proper input validation and sanitization",
     "Add unit tests to cover edge cases",
     "Review and update documentation" >>

\* generateSuggestedSolutions(exceptionMessage)
generateSuggestedSolutions(exceptionMessage) ==
  LET lower == toLowerCase(exceptionMessage)
      s1 == IF includes(lower, Chars("null"))
              THEN << "Add null checks before accessing variables or objects",
                      "Use optional chaining or safe navigation operators",
                      "Initialize variables with default values" >>
              ELSE <<>>
      s2 == IF includes(lower, Chars("connection")) \/ includes(lower, Chars("network"))
              THEN s1 \o << "Implement retry mechanisms with exponential backoff",
                            "Add circuit breaker pattern for external services",
                            "Increase timeout configurations if appropriate",
                            "Add proper error handling for network failures" >>
              ELSE s1
      s3 == IF includes(lower, Chars("memory")) \/ includes(lower, Chars("heap"))
              THEN s2 \o << "Increase JVM heap size or application memory limits",
                            "Implement proper resource cleanup (close streams, connections)",
                            "Optimize data processing to handle smaller chunks",
                            "Profile application for memory leaks" >>
              ELSE s2
      s4 == IF includes(lower, Chars("permission")) \/ includes(lower, Chars("access"))
              THEN s3 \o << "Check and update file or resource permissions",
                            "Verify authentication credentials and tokens",
                            "Review authorization rules and policies" >>
              ELSE s3
  IN  IF Len(s4) = 0 THEN GenericSolutions ELSE s4

\* the text of the error analyzeSpecificException throws when the search
\* fails, and when it matched no document: both are thrown inside the try
\* and leave its catch as new Error("Failed to analyze specific exception: ...")
AnalysisStoreFailure == "Failed to analyze specific exception: store"

AnalysisNothingFound == "Failed to analyze specific exception: No exceptions found"

\* the constructor of a thrown error: every throw of the service and of the
\* handlers is "new Error(...)"; date-fns format throws a RangeError
ErrorClass(err) == IF err = "RangeError" THEN "RangeError" ELSE "Error"

\* the continuation of analyzeSpecificException after its search, the
\* store having answered with hits and the buckets of time_distribution
SettleAnalysis(call, ok, hits, buckets) ==
  LET exceptionMessage == Chars(call.params.must[2].value) IN
  IF ~ok THEN [call EXCEPT !.status = "rejected", !.err = AnalysisStoreFailure]
  ELSE IF Len(hits) = 0
    THEN [call EXCEPT !.status = "rejected", !.err = AnalysisNothingFound]
  ELSE [call EXCEPT !.status = "fulfilled", !.hits = hits, !.aggs = buckets,
                    !.value = [trend |-> IF Len(buckets) > 1 THEN determineTrend(buckets)
                                         ELSE "stable",
                               possibleCauses |-> generatePossibleCauses(exceptionMessage),
                               suggestedSolutions |->
                                 generateSuggestedSolutions(exceptionMessage)]]

(***************************************************************************)
(* The store's answers.                                                    *)
(***************************************************************************)
\* the documents of the store that are exceptions: an _id in an index, with
\* its @timestamp
Docs ==
  { [id |-> "e1", index |-> "logs-1", timestamp |-> 3, message |-> "Timeout"],
    [id |-> "e1", index |-> "logs-2", timestamp |-> 2, message |-> "null"],
    [id |-> "e2", index |-> "logs-1", timestamp |-> 1, message |-> "null"] }

\* the hit lists of at most n documents, sorted as the searches ask: by
\* @timestamp, descending
HitLists(n) ==
  UNION { { h \in [1..k -> Docs] :
              \A a, b \in 1..k : a < b => h[a].timestamp > h[b].timestamp } : k \in 0..n }

\* The continuation of a service method after its store request: hits.map on
\* success; the catch blocks wrap a failure in a new Error; testConnection
\* returns response === true, and false when ping throws;
\* analyzeSpecificException throws when no document matched, inside its own
\* try, so that throw is wrapped like a failure of the store.
Settle(call, ok, hits) ==
  CASE call.method = "testConnection" ->
         [call EXCEPT !.status = "fulfilled", !.connected = ok]
    [] call.method = "analyzeSpecificException" -> SettleAnalysis(call, ok, hits, <<>>)
    [] OTHER ->
         IF ok THEN [call EXCEPT !.status = "fulfilled", !.hits = hits]
         ELSE [call EXCEPT !.status = "rejected", !.err = "Failed: store"]

\* how many of the calls the store has answered
Answered(calls) == Cardinality({ j \in 1..Len(calls) : calls[j].seq > 0 })

\* the store answers request i of tool call r: with at most size hits, or
\* with a failure
StoreReply(r, i, ok, hits) ==
  /\ req[r].pc = "awaiting"
  /\ i \in 1..Len(req[r].calls)
  /\ req[r].calls[i].status = "pending"
  /\ Len(hits) <= req[r].calls[i].params.size
  /\ ~ok => hits = <<>>
  /\ req' = [req EXCEPT ![r].calls[i] =
                [Settle(req[r].calls[i], ok, hits) EXCEPT !.seq = Answered(req[r].calls) + 1]]
  /\ UNCHANGED << clients, created, acq, cm, releases, http, exited >>

\* a join that is over as soon as the first promise has settled
FirstSettled(calls) == calls[1].status # "pending"

\* Promise.allSettled, and the await of a single promise
AllSettled(calls) == \A i \in 1..Len(calls) : calls[i].status # "pending"

\* combinedResults: a Map keyed by item.id, filled from the fulfilled
\* results in the order of searchPromises; the first item of an id stays
RECURSIVE AddItems(_, _)
AddItems(acc, items) ==
  IF items = <<>> THEN acc
  ELSE AddItems(IF \E k \in 1..Len(acc) : acc[k].id = Head(items).id
                  THEN acc ELSE Append(acc, Head(items)),
                Tail(items))

RECURSIVE CombineResults(_, _)
CombineResults(acc, calls) ==
  IF calls = <<>> THEN acc
  ELSE CombineResults(IF Head(calls).status = "fulfilled"
                        THEN AddItems(acc, Head(calls).hits) ELSE acc,
                      Tail(calls))

\* the calls in the order of their answers, the ones never sent first
RECURSIVE BySeq(_, _)
BySeq(calls, k) ==
  IF k > Len(calls) THEN <<>>
  ELSE SelectSeq(calls, LAMBDA c : c.seq = k) \o BySeq(calls, k + 1)

\* a merge that takes the results in the order the searches completed
combinedResultsInCompletionOrder(calls) == CombineResults(<<>>, BySeq(calls, 0))

\* Array.from(combinedResults.values())
combinedResults(calls) == CombineResults(<<>>, calls)

\* the response of a handler that awaited one service call
SingleResponse(rq) ==
  IF rq.calls[1].status = "rejected"
    THEN ErrorResponse(rq, rq.calls[1].err)
    ELSE SuccessResponse(rq, rq.calls[1].hits, rq.calls[1].connected)

\* analyze_trends awaits the service trends after the exception analysis
TrendsHasMore(rq) ==
  /\ rq.tool = "analyze_trends"
  /\ rq.p.analysisType = "both"
  /\ Len(rq.calls) = 1
  /\ rq.calls[1].status = "fulfilled"

\* what the handler answers once everything it awaits has settled
Response(rq) ==
  CASE rq.tool = "smart_search_exceptions" /\ IsSmart(rq.p) ->
         SuccessResponse(rq, Slice0(combinedResults(rq.calls), rq.p.limit), FALSE)
    [] rq.tool = "analyze_trends" ->
         IF rq.calls[Len(rq.calls)].status = "rejected"
           THEN ErrorResponse(rq, rq.calls[Len(rq.calls)].err)
           ELSE SuccessResponse(rq, <<>>, FALSE)
    [] OTHER -> SingleResponse(rq)

\* the handler resumes after its await and responds
Resume(r) ==
  /\ req[r].pc = "awaiting"
  /\ AllSettled(req[r].calls)
  /\ ~TrendsHasMore(req[r])
  /\ req' = [req EXCEPT ![r] = Response(req[r])]
  /\ UNCHANGED << clients, created, acq, cm, releases, http, exited >>

\* analyze_trends resumes after the exception analysis and calls
\* getServiceExceptionTrends on the same service
TrendsContinue(r, now) ==
  /\ req[r].pc = "awaiting"
  /\ TrendsHasMore(req[r])
  /\ now >= req[r].calls[1].now
  /\ LET i == getServiceExceptionTrends(clients[r], Len(created), r, req[r].teamId,
                 req[r].p.timeframe, TrendFilters(req[r].p, FALSE), now)
     IN  Await(r, req[r], i.clients, i.made, Append(req[r].calls, i.call))
  /\ UNCHANGED << acq, cm, releases, http, exited >>

(***************************************************************************)
(* ConfigManager: the configuration file and the configuration in memory.  *)
(* An optional object or array is <<>> when absent and << value >> when    *)
(* present; a JSON object is the sequence of its entries.                  *)
(***************************************************************************)
\* an entry of environments
Env(name, node) == [name |-> name, node |-> node]

\* indexPatterns with its two required arrays, each absent or present
Patterns(exceptions, applications) ==
  [exceptions |-> exceptions, applications |-> applications]

\* an entry of teams, as parsed from the file
RawTeam(teamId, teamName, defaultEnvironment, environments, indexPatterns) ==
  [teamId |-> teamId, teamName |-> teamName, defaultEnvironment |-> defaultEnvironment,
   environments |-> environments, indexPatterns |-> indexPatterns]

\* a MultiTeamConfig: teams is absent or the sequence of its entries
Config(teams) == [teams |-> teams]

\* { server: {...}, teams: {} }
EmptyConfig == Config(<< <<>> >>)

\* what the file holds: nothing (no file), text that is no JSON, or the
\* JSON of a configuration
MissingFile == [kind |-> "missing", config |-> Config(<<>>)]

GarbageFile == [kind |-> "garbage", config |-> Config(<<>>)]

JsonFile(config) == [kind |-> "json", config |-> config]

\* a validation that does not look at defaultEnvironment
validateTeamConfigAnyDefault(teamConfig) ==
  IF ~Truthy(teamConfig.teamName) THEN "must have a teamName"
  ELSE IF teamConfig.environments = <<>> THEN "must have environments configuration"
  ELSE IF Len(SelectSeq(teamConfig.environments[1], LAMBDA e : Truthy(e.node))) = 0
    THEN "must have at least one environment configured"
  ELSE IF teamConfig.indexPatterns = <<>> THEN "must have indexPatterns configuration"
  ELSE IF teamConfig.indexPatterns[1].exceptions = <<>>
    THEN "must have exceptions index patterns as an array"
  ELSE IF teamConfig.indexPatterns[1].applications = <<>>
    THEN "must have applications index patterns as an array"
  ELSE None

\* validateTeamConfig(teamId, teamConfig): the error thrown, or None
validateTeamConfig(teamConfig) ==
  IF ~Truthy(teamConfig.teamName) THEN "must have a teamName"
  ELSE IF teamConfig.environments = <<>> THEN "must have environments configuration"
  ELSE
    LET environments == teamConfig.environments[1]
        configuredEnvs == SelectSeq(environments, LAMBDA e : Truthy(e.node))
        availableEnvs == { environments[k].name : k \in 1..Len(environments) }
        default == teamConfig.defaultEnvironment
    IN  IF Len(configuredEnvs) = 0 THEN "must have at least one environment configured"
        ELSE IF Truthy(default) /\ default \notin availableEnvs
          THEN "defaultEnvironment must be one of the configured environments"
        ELSE IF /\ Truthy(default)
                /\ \A k \in 1..Len(environments) :
                     environments[k].name = default => ~Truthy(environments[k].node)
          THEN "defaultEnvironment must have a node URL configured"
        ELSE IF teamConfig.indexPatterns = <<>> THEN "must have indexPatterns configuration"
        ELSE IF teamConfig.indexPatterns[1].exceptions = <<>>
          THEN "must have exceptions index patterns as an array"
        ELSE IF teamConfig.indexPatterns[1].applications = <<>>
          THEN "must have applications index patterns as an array"
        ELSE None

\* validateConfig(config): the error thrown, or None
validateConfig(config) ==
  IF config.teams = <<>> THEN "Configuration must have a teams object"
  ELSE LET teams == config.teams[1]
           bad == { k \in 1..Len(teams) : validateTeamConfig(teams[k]) # None }
       IN  IF bad = {} THEN None
           ELSE validateTeamConfig(teams[CHOOSE k \in bad : \A j \in bad : k <= j])

\* the outcome of an operation: err is None when it returned
Outcome(op, err) == [op |-> op, err |-> err]

\* loadConfig(): the configuration returned, or the error thrown
loadConfig(file) ==
  IF file.kind = "missing" THEN [err |-> None, config |-> EmptyConfig]
  ELSE IF file.kind = "garbage" THEN [err |-> "Invalid JSON in config file", config |-> Config(<<>>)]
  ELSE IF validateConfig(file.config) # None
    THEN [err |-> "Failed to load config: " \o validateConfig(file.config),
          config |-> Config(<<>>)]
  ELSE [err |-> None, config |-> file.config]

\* a manager that was not constructed holds no configuration
NoConfig == Config(<<>>)

Manager(file, constructed, config, last) ==
  [file |-> file, constructed |-> constructed, config |-> config, last |-> last]

\* new ConfigManager(): getDefaultConfigPath writes an empty configuration
\* when there is no file, then the configuration is loaded; a throw of
\* loadConfig leaves no manager
Construct ==
  /\ ~cm.constructed
  /\ LET file == IF cm.file.kind = "missing" THEN JsonFile(EmptyConfig) ELSE cm.file
         l == loadConfig(file)
     IN  cm' = IF l.err # None
                 THEN Manager(file, FALSE, NoConfig, Outcome("constructor", l.err))
                 ELSE Manager(file, TRUE, l.config, Outcome("constructor", None))
  /\ UNCHANGED << req, clients, created, acq, releases, http, exited >>

\* somebody edits, replaces or deletes the configuration file
EditFile(file) ==
  /\ cm.file # file
  /\ cm' = [cm EXCEPT !.file = file, !.last = Outcome("edit", None)]
  /\ UNCHANGED << req, clients, created, acq, releases, http, exited >>

\* loadConfig() called on the manager (validate-config): the loaded
\* configuration is returned, not kept
LoadConfig ==
  /\ cm.constructed
  /\ cm' = [cm EXCEPT !.last = Outcome("loadConfig", loadConfig(cm.file).err)]
  /\ UNCHANGED << req, clients, created, acq, releases, http, exited >>

\* reloadConfig(): this.config = this.loadConfig()
ReloadConfig ==
  /\ cm.constructed
  /\ LET l == loadConfig(cm.file) IN
       cm' = IF l.err # None THEN [cm EXCEPT !.last = Outcome("reloadConfig", l.err)]
             ELSE [cm EXCEPT !.config = l.config, !.last = Outcome("reloadConfig", None)]
  /\ UNCHANGED << req, clients, created, acq, releases, http, exited >>

\* fs.writeFileSync(targetPath, JSON.stringify(config)): the file after the
\* write; a write that throws leaves the file as it was or cut short
Written(file, config, wrote, cut) ==
  IF wrote THEN JsonFile(config) ELSE IF cut THEN GarbageFile ELSE file

\* saveConfig(config, configPath?) with a path that is this.configPath
\* (same), or another spelling of the same file
SaveConfig(config, same, wrote, cut) ==
  /\ cm.constructed
  /\ wrote => ~cut
  /\ cm' = [cm EXCEPT !.file = Written(cm.file, config, wrote, cut),
                      !.config = IF wrote /\ same THEN config ELSE @,
                      !.last = Outcome("saveConfig", IF wrote THEN None ELSE "EIO")]
  /\ UNCHANGED << req, clients, created, acq, releases, http, exited >>

\* Object.keys(this.config.teams)
getAllTeams(config) == { config.teams[1][k].teamId : k \in 1..Len(config.teams[1]) }

\* addTeam(teamConfig): the entry is set in memory before the file is
\* written
AddTeam(teamConfig, wrote, cut) ==
  /\ cm.constructed
  /\ wrote => ~cut
  /\ cm' = IF teamConfig.teamId \in getAllTeams(cm.config)
             THEN [cm EXCEPT !.last = Outcome("addTeam", "already exists")]
             ELSE LET config == Config(<< Append(cm.config.teams[1], teamConfig) >>) IN
                  [cm EXCEPT !.file = Written(cm.file, config, wrote, cut),
                             !.config = config,
                             !.last = Outcome("addTeam", IF wrote THEN None ELSE "EIO")]
  /\ UNCHANGED << req, clients, created, acq, releases, http, exited >>

\* removeTeam(teamId): the entry is deleted in memory before the file is
\* written
RemoveTeam(teamId, wrote, cut) ==
  /\ cm.constructed
  /\ wrote => ~cut
  /\ cm' = IF teamId \notin getAllTeams(cm.config)
             THEN [cm EXCEPT !.last = Outcome("removeTeam", "not found")]
             ELSE LET config == Config(<< SelectSeq(cm.config.teams[1],
                                                    LAMBDA t : t.teamId # teamId) >>) IN
                  [cm EXCEPT !.file = Written(cm.file, config, wrote, cut),
                             !.config = config,
                             !.last = Outcome("removeTeam", IF wrote THEN None ELSE "EIO")]
  /\ UNCHANGED << req, clients, created, acq, releases, http, exited >>

\* the entries of the server's teams-config.json and the manager the
\* handlers construct from it
RECURSIVE EntriesOf(_, _)
EntriesOf(names, f) ==
  IF names = {} THEN <<>>
  ELSE LET n == CHOOSE x \in names : TRUE
       IN  << [key |-> n, value |-> f[n]] >> \o EntriesOf(names \ {n}, f)

ServerTeam(t) ==
  LET envs == EntriesOf(DOMAIN t.environments, t.environments) IN
  RawTeam(t.teamId, t.teamName, t.defaultEnvironment,
          << [k \in 1..Len(envs) |-> Env(envs[k].key, envs[k].value.node)] >>,
          << Patterns(<< t.indexPatterns.exceptions >>, << t.indexPatterns.applications >>) >>)

ServerConfig ==
  LET teams == EntriesOf(DOMAIN TeamsFile, TeamsFile) IN
  Config(<< [k \in 1..Len(teams) |-> ServerTeam(teams[k].value)] >>)

ServerManager ==
  Manager(JsonFile(ServerConfig), TRUE, ServerConfig, Outcome("constructor", None))

(***************************************************************************)
(* closeAllConnections: close() on every cached client in the order of the *)
(* Map, a throw of close() caught and logged, then clients.clear().        *)
(* throws is the set of handles whose close() throws.                      *)
(***************************************************************************)
MaxReleases == 2

HandlesOf(cl) == { cl[k] : k \in DOMAIN cl }

\* the loop without its try/catch: the first throw leaves the method
closeAllConnectionsUncaught(cl, throws) ==
  LET bad == HandlesOf(cl) \cap throws IN
  IF bad = {}
    THEN [attempted |-> HandlesOf(cl), threw |-> {}, clients |-> EmptyCache]
    ELSE LET first == CHOOSE h \in bad : \A g \in bad : h <= g
         IN  [attempted |-> { h \in HandlesOf(cl) : h <= first }, threw |-> {first},
              clients |-> cl]

closeAllConnections(cl, throws) ==
  [attempted |-> HandlesOf(cl), threw |-> HandlesOf(cl) \cap throws, clients |-> EmptyCache]

\* closeAllConnections() on service 1
CloseAllConnections(throws) ==
  /\ Len(releases) < MaxReleases
  /\ LET c == closeAllConnections(clients[1], throws)
     IN  /\ clients' = [clients EXCEPT ![1] = c.clients]
         /\ releases' = Append(releases, [before |-> clients[1], attempted |-> c.attempted,
                                          threw |-> c.threw, after |-> c.clients])
  /\ UNCHANGED << req, created, acq, cm, http, exited >>

\* the handles close() has been called on
Closed == UNION { releases[k].attempted : k \in 1..Len(releases) }

(***************************************************************************)
(* The HTTP server.  A session id is the number of its SSE request; 0 is   *)
(* a sessionId parameter that is missing.  An SSE request is at            *)
(*   none       not made yet,                                              *)
(*   refused    answered 400, no session,                                  *)
(*   streaming  connect() resolved, the event stream is open,              *)
(*   failed     connect() rejected: answered 500 or ended, 'close' pending,*)
(*   closed     the response's 'close' event has run its listener.         *)
(* The GET handler's awaits (the import of a loaded module, connect) settle*)
(* in the microtask queue, so no other handler runs inside it.             *)
(***************************************************************************)
MaxConns == 2

ConnIds == 1..MaxConns

NoConn == [pc |-> "none", teamId |-> None, status |-> 0]

NoPost == [sessionId |-> 0, status |-> 0, reached |-> 0]

HttpIdle ==
  [sseTransportStore |-> {}, sseServerStore |-> {}, conn |-> [c \in ConnIds |-> NoConn],
   post |-> NoPost, last |-> "startHttpServer"]

\* GET ssePath with ?TEAM=teamId; connects: connect(transport) resolves;
\* headersSent: when it rejects, the response head was already written
GetSse(c, teamId, connects, headersSent) ==
  /\ http.conn[c].pc = "none"
  /\ http' =
       IF ~Truthy(teamId) \/ ~TeamKnown(teamId)
         THEN [http EXCEPT !.conn[c] = [pc |-> "refused", teamId |-> teamId, status |-> 400],
                           !.last = "get"]
         ELSE [http EXCEPT !.sseTransportStore = @ \cup {c},
                           !.sseServerStore = @ \cup {c},
                           !.conn[c] = [pc |-> IF connects THEN "streaming" ELSE "failed",
                                        teamId |-> teamId,
                                        status |-> IF connects \/ headersSent THEN 200 ELSE 500],
                           !.last = "get"]
  /\ UNCHANGED << req, clients, created, acq, cm, releases, exited >>

\* a listener that deletes the session server and leaves the transport
CloseSseServerOnly(c) ==
  /\ http.conn[c].pc \in {"streaming", "failed"}
  /\ http' = [http EXCEPT !.sseServerStore = @ \ {c},
                          !.conn[c].pc = "closed",
                          !.last = "close"]
  /\ UNCHANGED << req, clients, created, acq, cm, releases, exited >>

\* the listener of res.on('close')
CloseSse(c) ==
  /\ http.conn[c].pc \in {"streaming", "failed"}
  /\ http' = [http EXCEPT !.sseServerStore = @ \ {c},
                          !.sseTransportStore = @ \ {c},
                          !.conn[c].pc = "closed",
                          !.last = "close"]
  /\ UNCHANGED << req, clients, created, acq, cm, releases, exited >>

\* POST messagesPath with ?sessionId; handled: handlePostMessage returns
PostMessage(sessionId, handled) ==
  /\ http' =
       IF sessionId = 0 \/ sessionId \notin http.sseTransportStore
         THEN [http EXCEPT !.post = [sessionId |-> sessionId, status |-> 400, reached |-> 0],
                           !.last = "post"]
         ELSE [http EXCEPT !.post = [sessionId |-> sessionId,
                                     status |-> IF handled THEN 202 ELSE 500,
                                     reached |-> sessionId],
                           !.last = "post"]
  /\ UNCHANGED << req, clients, created, acq, cm, releases, exited >>

\* shutdownHttpServer: the keys of the transport store deleted from both
\* stores, then both cleared if either still holds an entry
shutdownHttpServer(h) ==
  LET sseSessions == h.sseTransportStore
      transports == h.sseTransportStore \ sseSessions
      servers == h.sseServerStore \ sseSessions
  IN  IF transports # {} \/ servers # {}
        THEN [h EXCEPT !.sseTransportStore = {}, !.sseServerStore = {},
                       !.last = "shutdownHttpServer"]
        ELSE [h EXCEPT !.sseTransportStore = transports, !.sseServerStore = servers,
                       !.last = "shutdownHttpServer"]

ShutdownHttpServer ==
  /\ http' = shutdownHttpServer(http)
  /\ UNCHANGED << req, clients, created, acq, cm, releases, exited >>

\* the SIGTERM and SIGINT handlers:
\*   shutdownHttpServer().finally(() => process.exit(0))
Signal ==
  /\ ~exited
  /\ http' = shutdownHttpServer(http)
  /\ exited' = TRUE
  /\ UNCHANGED << req, clients, created, acq, cm, releases >>

(***************************************************************************)
(* The server: tool calls of MCP sessions running concurrently.            *)
(***************************************************************************)
NoAcquire ==
  [teamId |-> None, environment |-> None, err |-> None, handle |-> 0, key |-> None,
   before |-> EmptyCache, made |-> 0]

Init ==
  /\ req = [r \in ReqIds |-> Idle]
  /\ clients = [r \in ReqIds |-> EmptyCache]
  /\ created = <<>>
  /\ acq = NoAcquire
  /\ cm = ServerManager
  /\ releases = <<>>
  /\ http = HttpIdle
  /\ exited = FALSE

\* the teams sessions are opened for; omega is in no configuration
SessionTeams == {"alpha", "beta", "gamma", "omega"}

\* the environment arguments: omitted, and one configured for no team
EnvArgs == {None, "qa"}

TextNull == << "n", "u", "l", "l" >>
TextTimeout == << "T", "i", "m", "e", "o", "u", "t" >>

ServerArgs ==
  { Args(env, msg, <<>>, None, <<>>, <<>>, tf, 20, FALSE, TRUE, at, msg) :
      env \in EnvArgs, msg \in {TextNull}, tf \in {"24h"}, at \in {"both"} }

\* the answers to the searches of concurrent sessions: no hit, or the newest
\* document
ServerHits ==
  {<<>>, << [id |-> "e1", index |-> "logs-1", timestamp |-> 3, message |-> "Timeout"] >>}

Next ==
  \E r \in ReqIds :
    \/ \E t \in SessionTeams, p \in ServerArgs :
         \/ CallSearchExceptions(r, t, p, NowBase, 0)
         \/ CallSmartSearchExceptions(r, t, p, NowBase, 0)
         \/ CallSearchLogs(r, t, p, NowBase, 0)
         \/ CallAnalyzeException(r, t, p, NowBase)
         \/ CallAnalyzeTrends(r, t, p, NowBase, 0)
         \/ CallTestConnection(r, t, p, NowBase)
    \/ \E i \in 1..3, ok \in BOOLEAN, hits \in ServerHits : StoreReply(r, i, ok, hits)
    \/ TrendsContinue(r, NowBase)
    \/ Resume(r)

Spec == Init /\ [][Next]_vars

(***************************************************************************)
(* Properties of the server.                                               *)
(***************************************************************************)
\* the name a tool is registered under with mcpServer.tool
OperationName(tool) ==
  IF tool = "smart_search_exceptions" THEN "search_exceptions" ELSE tool

\* the requests of the store that are in flight, as << request, call >>
InFlight ==
  { rc \in ReqIds \X (1..3) :
      /\ rc[2] <= Len(req[rc[1]].calls)
      /\ req[rc[1]].calls[rc[2]].status = "pending" }

\* C1: requests that are in flight at the same time for the same
\* tenantId:environment key all hold the same client handle, the one handle
\* constructed for that key.
C1_ConcurrentAcquireSharesHandle ==
  \A a, b \in InFlight :
    req[a[1]].calls[a[2]].key = req[b[1]].calls[b[2]].key
      => req[a[1]].calls[a[2]].handle = req[b[1]].calls[b[2]].handle

\* C2: over the tool calls made in the process, no key has more than one
\* client handle ever constructed for it: only the first call for a key
\* constructs, the later ones reuse.
C2_OneHandleEverPerKey ==
  \A a, b \in 1..Len(created) : created[a].key = created[b].key => a = b

\* C3: a tool call for an operation that the tenant's allowedOperations is set
\* and does not list fails as not permitted, has acquired no client handle and
\* has sent nothing to the store.
C3_DeniedOperationTouchesNothing ==
  \A r \in ReqIds :
    ( /\ req[r].pc # "idle"
      /\ TeamKnown(req[r].teamId)
      /\ OperationDenied(getTeamConfig(req[r].teamId), OperationName(req[r].tool)) )
    => /\ req[r].calls = <<>>
       /\ \A k \in 1..Len(created) : created[k].svc # r
       /\ req[r].outcome = "error"
       /\ req[r].err = "NotAllowed"

\* the environment argument names no configured environment of the tenant, or
\* is omitted and the tenant has no default
EnvironmentUnresolvable(teamId, environment) ==
  LET teamConfig == getTeamConfig(teamId)
      env == IF Truthy(environment) THEN environment ELSE teamConfig.defaultEnvironment
  IN  ~Truthy(env) \/ env \notin DOMAIN teamConfig.environments

\* C5: a tool call whose environment cannot be resolved for its tenant never
\* ends as a successful response: its outcome is an error.
C5_UnresolvableEnvironmentIsError ==
  \A r \in ReqIds :
    ( /\ req[r].pc = "done"
      /\ TeamKnown(req[r].teamId)
      /\ EnvironmentUnresolvable(req[r].teamId, req[r].p.environment) )
    => req[r].outcome = "error"

(***************************************************************************)
(* The connection cache of one long-lived service (the CLI keeps one       *)
(* ElasticsearchService for all its commands): getClient called for any    *)
(* team and environment, against whatever the cache holds by then.         *)
(***************************************************************************)
CacheEnvArgs == {None, "staging", "production", "qa"}

\* one getClient on service 1; acq records the call, the cache before it and
\* what it returned or threw
Acquire(teamId, environment) ==
  /\ LET g == getClient(clients[1], Len(created), 1, teamId, environment)
     IN  /\ clients' = [clients EXCEPT ![1] = g.clients]
         /\ created' = created \o g.made
         /\ acq' = [teamId |-> teamId, environment |-> environment, err |-> g.err,
                    handle |-> g.handle, key |-> g.key, before |-> clients[1],
                    made |-> Len(g.made)]
  /\ UNCHANGED << req, cm, releases, http, exited >>

NextCache == \E teamId \in SessionTeams, environment \in CacheEnvArgs : Acquire(teamId, environment)

SpecCache == Init /\ [][NextCache]_vars

\* C4: getClient resolves an omitted environment to the team's
\* defaultEnvironment and returns the handle cached under teamId:environment;
\* for an unknown team, for no environment given and no default, and for an
\* environment the team does not configure, it throws the matching
\* configuration error, constructs no client and leaves the cache as it was.
C4_AcquireResolvesOrFails ==
  acq.teamId # None =>
    IF ~TeamKnown(acq.teamId)
      THEN acq.err = "TeamNotFound" /\ acq.made = 0 /\ clients[1] = acq.before
    ELSE
      LET teamConfig == getTeamConfig(acq.teamId)
          env == IF Truthy(acq.environment) THEN acq.environment
                 ELSE teamConfig.defaultEnvironment
      IN  IF ~Truthy(env)
            THEN acq.err = "NoEnvironment" /\ acq.made = 0 /\ clients[1] = acq.before
          ELSE IF env \notin DOMAIN teamConfig.environments
            THEN acq.err = "EnvironmentNotFound" /\ acq.made = 0 /\ clients[1] = acq.before
          ELSE /\ acq.err = None
               /\ acq.key = acq.teamId \o ":" \o env
               /\ acq.key \in DOMAIN clients[1]
               /\ clients[1][acq.key] = acq.handle
               /\ acq.made = (IF acq.key \in DOMAIN acq.before THEN 0 ELSE 1)
               /\ \A k \in DOMAIN acq.before : clients[1][k] = acq.before[k]

\* an acquire without environment fails on a cache that already holds the
\* handle another team's default environment resolved to
C4_Witness ==
  /\ acq.teamId = "beta"
  /\ acq.environment = None
  /\ acq.err = "NoEnvironment"
  /\ "alpha:production" \in DOMAIN clients[1]
  /\ "alpha:staging" \notin DOMAIN clients[1]

(***************************************************************************)
(* One exception search and the store's answers to it.                     *)
(***************************************************************************)
SearchTeams == {"alpha", "beta"}

\* no text, a text with one short key term, a text with one long key term
SearchTexts == {<<>>, TextNull, TextTimeout}

SearchLimits == {1, 20}

SearchArgs ==
  { Args("staging", msg, <<>>, None, <<>>, <<>>, None, limit, FALSE, smart, None, <<>>) :
      msg \in SearchTexts, limit \in SearchLimits, smart \in BOOLEAN }

\* the hit lists the store may answer a search with
SearchHits == HitLists(MaxHits)

NextSearch ==
  \/ \E t \in SearchTeams, p \in SearchArgs : CallSearchExceptions(1, t, p, NowBase, 0)
  \/ \E t \in SearchTeams, p \in SearchArgs : CallSmartSearchExceptions(1, t, p, NowBase, 0)
  \/ \E i \in 1..3, ok \in BOOLEAN, hits \in SearchHits : StoreReply(1, i, ok, hits)
  \/ Resume(1)

SpecSearch == Init /\ [][NextSearch]_vars
\* the smart search has been chosen for tool call 1
SmartCall == req[1].tool = "smart_search_exceptions" /\ IsSmart(req[1].p)

Fulfilled(rq) == { i \in 1..Len(rq.calls) : rq.calls[i].status = "fulfilled" }

IdsOf(items) == { items[k].id : k \in 1..Len(items) }

\* C6: the smart search sends all its strategies' searches before any is
\* answered, responds only when every one of them has settled, and always
\* responds with a success: each record of the response comes from a
\* fulfilled strategy, every id a fulfilled strategy returned is in the
\* response unless the limit cut the list, and when every strategy is
\* rejected the list is empty.
C6_SmartSearchWaitsAndTolerates ==
  SmartCall =>
    /\ req[1].pc = "awaiting" => Len(req[1].calls) = Len(SmartMessages(OrText(req[1].p.message, req[1].p.query)))
    /\ req[1].pc = "done" =>
         /\ \A i \in 1..Len(req[1].calls) : req[1].calls[i].status \in {"fulfilled", "rejected"}
         /\ req[1].outcome = "success"
         /\ \A k \in 1..Len(req[1].results) :
              \E i \in Fulfilled(req[1]) : req[1].results[k] \in SeqToSet(req[1].calls[i].hits)
         /\ \A i \in Fulfilled(req[1]) :
              \/ IdsOf(req[1].calls[i].hits) \subseteq IdsOf(req[1].results)
              \/ Len(req[1].results) = req[1].p.limit
         /\ Fulfilled(req[1]) = {} => req[1].results = <<>>

\* a smart search has responded with the records of one strategy while
\* another strategy's search failed
C6_Witness ==
  /\ SmartCall
  /\ req[1].pc = "done"
  /\ Len(req[1].calls) = 3
  /\ req[1].calls[1].status = "rejected"
  /\ req[1].calls[2].status = "fulfilled"
  /\ req[1].calls[3].status = "rejected"
  /\ Len(req[1].results) = 2

\* the first record with this id in the hits of the earliest fulfilled
\* strategy that returned the id
EarliestInstance(rq, id) ==
  LET i == CHOOSE i \in Fulfilled(rq) :
             /\ id \in IdsOf(rq.calls[i].hits)
             /\ \A j \in Fulfilled(rq) : id \in IdsOf(rq.calls[j].hits) => i <= j
      hits == rq.calls[i].hits
      k == CHOOSE k \in 1..Len(hits) :
             /\ hits[k].id = id
             /\ \A m \in 1..Len(hits) : hits[m].id = id => k <= m
  IN  hits[k]

\* C7: the response of a smart search holds each id at most once, the record
\* kept for an id is the one of the earliest strategy in the list that
\* returned it, whatever the order in which the searches completed, and the
\* response holds at most limit records.
C7_MergeKeepsEarliestStrategy ==
  (SmartCall /\ req[1].pc = "done") =>
    /\ \A a, b \in 1..Len(req[1].results) :
         req[1].results[a].id = req[1].results[b].id => a = b
    /\ \A k \in 1..Len(req[1].results) :
         req[1].results[k] = EarliestInstance(req[1], req[1].results[k].id)
    /\ Len(req[1].results) <= req[1].p.limit

\* the second strategy's search completed before the first one's, both
\* returned id e1 from different indices, and the response holds the first
\* strategy's record
C7_Witness ==
  /\ SmartCall
  /\ req[1].pc = "done"
  /\ Len(req[1].calls) >= 2
  /\ req[1].calls[1].status = "fulfilled"
  /\ req[1].calls[2].status = "fulfilled"
  /\ req[1].calls[2].seq < req[1].calls[1].seq
  /\ Len(req[1].calls[1].hits) = 1
  /\ Len(req[1].calls[2].hits) = 1
  /\ req[1].calls[1].hits[1].id = req[1].calls[2].hits[1].id
  /\ req[1].calls[1].hits[1].index # req[1].calls[2].hits[1].index
  /\ req[1].results = req[1].calls[1].hits

\* an exception search of either handler
ExceptionSearch(rq) == rq.tool \in {"search_exceptions", "smart_search_exceptions"}

\* C9: every search an exception search sends asks for min(limit,
\* maxSearchResults) records, and its response holds at most that many.
C9_SizeIsMinOfLimitAndCap ==
  \A r \in ReqIds :
    ExceptionSearch(req[r]) =>
      LET cap == Min(req[r].p.limit, getTeamConfig(req[r].teamId).maxSearchResults) IN
      /\ \A i \in 1..Len(req[r].calls) :
           req[r].calls[i].status = "pending" => req[r].calls[i].params.size = cap
      /\ Len(req[r].results) <= cap

(***************************************************************************)
(* The queries built: one call of a handler or of a public service method  *)
(* on service 1, at any time and for any timeframe, up to the search it    *)
(* sends.                                                                  *)
(***************************************************************************)
TimeframeMethods ==
  {"searchFrequentExceptions", "searchExceptionsByContext",
   "analyzeSpecificException", "getServiceExceptionTrends"}

\* the tokens of the map, tokens it does not know, and a name every object
\* literal inherits
Timeframes == {"1h", "6h", "12h", "24h", "7d", "30d", "", "constructor"}

QueryTeams == {"alpha", "gamma"}

\* a caller of the service's public API invokes a method that takes a
\* timeframe (its type is string)
InvokeTimeframeMethod(method, teamId, timeframe, now) ==
  /\ req[1].pc = "idle"
  /\ LET filters == Filters(None, <<>>, None, <<>>, None, <<>>, 0, FALSE)
         i == CASE method = "searchFrequentExceptions" ->
                     searchFrequentExceptions(clients[1], Len(created), 1, teamId,
                                              timeframe, 10, filters, now)
                [] method = "searchExceptionsByContext" ->
                     searchExceptionsByContext(clients[1], Len(created), 1, teamId,
                                               TextTimeout, timeframe, filters, now)
                [] method = "analyzeSpecificException" ->
                     analyzeSpecificException(clients[1], Len(created), 1, teamId,
                                              TextTimeout, timeframe, filters, now)
                [] OTHER ->
                     getServiceExceptionTrends(clients[1], Len(created), 1, teamId,
                                               timeframe, filters, now)
     IN  Await(1, Entered(1, method, teamId, [NoArgs EXCEPT !.timeframe = timeframe]),
               i.clients, i.made, << i.call >>)
  /\ UNCHANGED << acq, cm, releases, http, exited >>

\* a timeRange given by the caller
GivenRange == [start |-> format(NowBase - 5000), end |-> format(NowBase - 1000)]

\* a timeRange whose end is before its start
ReversedRange == [start |-> format(NowBase - 1000), end |-> format(NowBase - 5000)]

QueryArgs ==
  { Args(None, <<>>, <<>>, service, <<>>, timeRange, timeframe, 20, FALSE, FALSE, "exceptions", <<>>) :
      service \in {None, "payment"},
      timeRange \in {<<>>, << GivenRange >>, << ReversedRange >>},
      timeframe \in {None, "1h", "24h", "7d"} }

NextQuery ==
  \/ \E method \in TimeframeMethods, t \in QueryTeams, tf \in Timeframes, now \in Times :
       InvokeTimeframeMethod(method, t, tf, now)
  \/ \E t \in QueryTeams, p \in QueryArgs, now \in Times, dst \in DstShifts :
       \/ CallSearchExceptions(1, t, p, now, dst)
       \/ CallSearchLogs(1, t, p, now, dst)
       \/ CallAnalyzeTrends(1, t, p, now, dst)

SpecQuery == Init /\ [][NextQuery]_vars

\* the duration the specification gives a timeframe token, in hours
DurationHours(timeframe) ==
  CASE timeframe = "1h" -> 1
    [] timeframe = "6h" -> 6
    [] timeframe = "12h" -> 12
    [] timeframe = "7d" -> 168
    [] OTHER -> 24

\* the range clauses of a search
RangeClauses(params) ==
  { c \in SeqToSet(params.must) \cup SeqToSet(params.filter) : c.type = "range" }

\* C8: the search sent by an exception search that was given a timeframe and
\* no timeRange carries one range filter, from now - duration(timeframe) to
\* now, for the team's default environment when none is given.
C8_TimeframeSetsTheRange ==
  ( /\ req[1].tool = "search_exceptions"
    /\ req[1].pc = "awaiting"
    /\ req[1].p.timeframe # None
    /\ req[1].p.timeRange = <<>> )
  => LET call == req[1].calls[1] IN
     /\ call.status = "pending"
     /\ call.key = req[1].teamId \o ":production"
     /\ \E c \in RangeClauses(call.params) :
          /\ RangeClauses(call.params) = {c}
          /\ c.gte = format(call.now - DurationHours(req[1].p.timeframe) * MsPerHour)
          /\ c.lte = format(call.now)

\* C10: a method of the service that converts a timeframe sends a search whose
\* range starts the token's hours before now (1, 6, 12, 24, 168 for the five
\* tokens of the map, 24 for any other token) and ends now.
C10_WindowByTimeframe ==
  (req[1].tool \in TimeframeMethods /\ req[1].pc = "awaiting")
  => LET call == req[1].calls[1] IN
     /\ call.status = "pending"
     /\ \E c \in RangeClauses(call.params) :
          /\ c.gte = format(call.now - DurationHours(req[1].p.timeframe) * MsPerHour)
          /\ c.lte = format(call.now)

\* the tools whose service method takes the time window from filters.timeRange
RangeTools == {"search_exceptions", "search_logs", "analyze_trends"}

\* tool call 1 has sent the search of such a tool
RangeSearchSent ==
  /\ req[1].tool \in RangeTools
  /\ req[1].pc = "awaiting"
  /\ req[1].calls[1].status = "pending"

\* the default window the specification gives each operation, in hours
DefaultWindowHours(tool) ==
  CASE tool = "search_exceptions" -> 24
    [] tool = "analyze_trends" -> 7 * 24
    [] OTHER -> 1

\* C11: a search sent with neither timeRange nor timeframe has its range
\* start at now - 24 h for the exception search, now - 7 d for the exception
\* analysis and now - 1 h for the log search.
C11_DefaultWindow ==
  (RangeSearchSent /\ req[1].p.timeRange = <<>> /\ req[1].p.timeframe = None)
  => \E c \in RangeClauses(req[1].calls[1].params) :
       c.gte = format(req[1].calls[1].now - DefaultWindowHours(req[1].tool) * MsPerHour)

\* C12: a search sent with an explicit timeRange carries exactly one range
\* clause, whose gte is timeRange.start and whose lte is timeRange.end as
\* given, also when the end is before the start.
C12_ExplicitRangeKept ==
  (RangeSearchSent /\ req[1].p.timeRange # <<>>)
  => RangeClauses(req[1].calls[1].params) =
       { [type |-> "range", field |-> "@timestamp", value |-> None,
          gte |-> req[1].p.timeRange[1].start, lt |-> NoStamp,
          lte |-> req[1].p.timeRange[1].end, size |-> 0] }

\* a log search sent with a timeRange that ends before it starts
C12_Witness ==
  /\ RangeSearchSent
  /\ req[1].tool = "search_logs"
  /\ req[1].p.timeRange = << ReversedRange >>
  /\ Len(req[1].calls[1].params.filter) >= 1

(***************************************************************************)
(* Service trends: what getServiceExceptionTrends makes of the buckets of  *)
(* the services aggregation.                                               *)
(***************************************************************************)
\* Math.round of the quotient num / den, den > 0: the nearest integer, a
\* tie going up
RoundQuotient(num, den) == (2 * num + den) \div (2 * den)

\* a threshold that classifies a change of exactly 10 or -10 as a trend
TrendOfInclusive(num, den) ==
  IF num >= 10 * den THEN "increasing"
  ELSE IF num <= (0 - 10) * den THEN "decreasing"
  ELSE "stable"

\* the trend of the change num / den (den > 0): > 10, < -10, else stable
TrendOf(num, den) ==
  IF num > 10 * den THEN "increasing"
  ELSE IF num < (0 - 10) * den THEN "decreasing"
  ELSE "stable"

\* a percentage change that takes the second half's count for the change
\* when the first half is empty
ServiceTrendFromNothing(bucket) ==
  LET firstHalfCount == bucket.first_half
      secondHalfCount == bucket.second_half
      num == IF firstHalfCount > 0 THEN (secondHalfCount - firstHalfCount) * 100
             ELSE secondHalfCount * 100
      den == IF firstHalfCount > 0 THEN firstHalfCount ELSE 1
  IN  [service |-> bucket.key, exceptionCount |-> bucket.total_exceptions,
       trend |-> TrendOf(num, den), percentageChange |-> RoundQuotient(num, den)]

\* the record pushed for one bucket of aggs.services
ServiceTrend(bucket) ==
  LET firstHalfCount == bucket.first_half
      secondHalfCount == bucket.second_half
      num == IF firstHalfCount > 0 THEN (secondHalfCount - firstHalfCount) * 100 ELSE 0
      den == IF firstHalfCount > 0 THEN firstHalfCount ELSE 1
  IN  [service |-> bucket.key, exceptionCount |-> bucket.total_exceptions,
       trend |-> TrendOf(num, den), percentageChange |-> RoundQuotient(num, den)]

\* for (const bucket of aggs.services.buckets) trends.push(...)
ServiceTrends(buckets) == [k \in 1..Len(buckets) |-> ServiceTrend(buckets[k])]

\* document counts << first_half, second_half >> of a service bucket
HalfCounts == { <<0, 0>>, <<0, 32>>, <<10, 0>>, <<10, 9>>, <<10, 10>>, <<10, 11>>, <<10, 12>>, <<10, 8>>, <<29, 32>>, <<29, 26>>, <<2, 3>>, <<3, 2>> }

\* the services of the terms aggregation, in bucket order
ServiceKeys == << "api", "web", "db", "auth" >>

\* how many service buckets an answer holds at most
MaxServices == 2

ServiceBucket(key, first, second) ==
  [key |-> key, first_half |-> first, second_half |-> second,
   total_exceptions |-> first + second]

\* the buckets of aggs.services with the half counts c[k] for service k
ServiceBuckets(n, c) == [k \in 1..n |-> ServiceBucket(ServiceKeys[k], c[k][1], c[k][2])]

\* the store answers the search of getServiceExceptionTrends and the method
\* returns the trends
TrendsReply(r, i, buckets) ==
  /\ req[r].pc = "awaiting"
  /\ i \in 1..Len(req[r].calls)
  /\ req[r].calls[i].status = "pending"
  /\ req[r].calls[i].method = "getServiceExceptionTrends"
  /\ req' = [req EXCEPT ![r].calls[i] =
                [@ EXCEPT !.status = "fulfilled", !.aggs = buckets,
                          !.value = ServiceTrends(buckets),
                          !.seq = Answered(req[r].calls) + 1]]
  /\ UNCHANGED << clients, created, acq, cm, releases, http, exited >>

NextTrends ==
  \/ \E tf \in {"24h", "7d"} : InvokeTimeframeMethod("getServiceExceptionTrends", "alpha", tf, NowBase)
  \/ \E n \in 0..MaxServices : \E c \in [1..n -> HalfCounts] :
       TrendsReply(1, 1, ServiceBuckets(n, c))

SpecTrends == Init /\ [][NextTrends]_vars

\* the trends returned to tool call 1, with the buckets they were made from
TrendsReturned ==
  IF /\ req[1].calls # <<>>
     /\ req[1].calls[1].method = "getServiceExceptionTrends"
     /\ req[1].calls[1].status = "fulfilled"
  THEN { << req[1].calls[1].aggs[k], req[1].calls[1].value[k] >> :
           k \in 1..Len(req[1].calls[1].value) }
  ELSE {}
\* the change of a bucket as the fraction num / den: 0 when the first half
\* is empty, else (second - first) / first * 100
ChangeNum(b) == IF b.first_half > 0 THEN (b.second_half - b.first_half) * 100 ELSE 0

ChangeDen(b) == IF b.first_half > 0 THEN b.first_half ELSE 1

Abs(x) == IF x < 0 THEN 0 - x ELSE x

\* C13, read on the returned record: the trend of every returned record is
\* increasing iff its percentageChange field is > 10, decreasing iff it is
\* < -10 and stable otherwise.
C13_TrendFromReportedChange ==
  \A bt \in TrendsReturned :
    bt[2].trend = (IF bt[2].percentageChange > 10 THEN "increasing"
                   ELSE IF bt[2].percentageChange < 0 - 10 THEN "decreasing"
                   ELSE "stable")

\* C13, amended: the trend of every returned record is increasing iff the
\* computed, unrounded change is > 10, decreasing iff it is < -10 and stable
\* otherwise (exactly 10 and -10 are stable), and the percentageChange field
\* is an integer nearest to the computed change.
C13_TrendFromComputedChange ==
  \A bt \in TrendsReturned :
    LET num == ChangeNum(bt[1])
        den == ChangeDen(bt[1])
    IN  /\ bt[2].trend = "increasing" <=> num > 10 * den
        /\ bt[2].trend = "decreasing" <=> num < (0 - 10) * den
        /\ bt[2].trend = "stable" <=> (num <= 10 * den /\ num >= (0 - 10) * den)
        /\ 2 * Abs(num - bt[2].percentageChange * den) <= den

\* a record whose computed change is above 10 and is reported as 10, next
\* to a record whose change is exactly 10
C13_Witness ==
  /\ \E bt \in TrendsReturned :
       /\ bt[1].first_half = 29 /\ bt[1].second_half = 32
       /\ bt[2].trend = "increasing" /\ bt[2].percentageChange = 10
  /\ \E bt \in TrendsReturned :
       /\ bt[1].first_half = 10 /\ bt[1].second_half = 11
       /\ bt[2].trend = "stable" /\ bt[2].percentageChange = 10

\* C14: a record made from a bucket with firstHalfCount = 0 has
\* percentageChange 0 and trend stable whatever secondHalfCount is; for
\* firstHalfCount > 0 the change it reports and classifies is
\* (secondHalfCount - firstHalfCount) / firstHalfCount * 100.
C14_ChangeFromEmptyFirstHalf ==
  \A bt \in TrendsReturned :
    IF bt[1].first_half = 0
      THEN bt[2].percentageChange = 0 /\ bt[2].trend = "stable"
      ELSE LET d == bt[1].second_half - bt[1].first_half
               f == bt[1].first_half
           IN  /\ 2 * Abs(100 * d - bt[2].percentageChange * f) <= f
               /\ bt[2].trend = "stable" <=> Abs(100 * d) <= 10 * f

\* a service with no exception in the first half and 32 in the second
C14_Witness ==
  \E bt \in TrendsReturned :
    /\ bt[1].first_half = 0 /\ bt[1].second_half = 32
    /\ bt[2].percentageChange = 0 /\ bt[2].trend = "stable"

(***************************************************************************)
(* The analysis of one exception over the histograms the store can return. *)
(***************************************************************************)
\* buckets of time_distribution at most
MaxBuckets == 7

\* documents in one hourly bucket at most
MaxCount == 2

\* the buckets of a date_histogram with the counts c: the histogram runs
\* from the hour of the oldest match to the hour of the newest, so its
\* first and last buckets are not empty
HistogramBuckets(n, c) == [k \in 1..n |-> [doc_count |-> c[k]]]

HistogramCounts(n) == { c \in [1..n -> 0..MaxCount] : c[1] > 0 /\ c[n] > 0 }

\* the newest matching document
NewestHit == << [id |-> "e1", index |-> "logs-1", timestamp |-> 3, message |-> "Timeout"] >>

\* the store answers the search of analyzeSpecificException and the method
\* runs to its return or throw
AnalysisReply(r, i, ok, hits, buckets) ==
  /\ req[r].pc = "awaiting"
  /\ i \in 1..Len(req[r].calls)
  /\ req[r].calls[i].status = "pending"
  /\ req[r].calls[i].method = "analyzeSpecificException"
  /\ ~ok => hits = <<>>
  /\ hits = <<>> <=> buckets = <<>>
  /\ req' = [req EXCEPT ![r].calls[i] =
                [SettleAnalysis(req[r].calls[i], ok, hits, buckets)
                   EXCEPT !.seq = Answered(req[r].calls) + 1]]
  /\ UNCHANGED << clients, created, acq, cm, releases, http, exited >>

\* the arguments of analyze_exception
AnalysisArgs(exceptionMessage, timeframe) ==
  [NoArgs EXCEPT !.exceptionMessage = exceptionMessage, !.timeframe = timeframe]

NextDistribution ==
  \/ \E tf \in {"24h", "7d"} :
       CallAnalyzeException(1, "gamma", AnalysisArgs(TextTimeout, tf), NowBase)
  \/ \E n \in 1..MaxBuckets : \E c \in HistogramCounts(n) :
       AnalysisReply(1, 1, TRUE, NewestHit, HistogramBuckets(n, c))
  \/ \E ok \in BOOLEAN : AnalysisReply(1, 1, ok, <<>>, <<>>)
  \/ Resume(1)

SpecDistribution == Init /\ [][NextDistribution]_vars

\* the settled calls of analyzeSpecificException
AnalysisCalls ==
  { c \in UNION { SeqToSet(req[r].calls) : r \in ReqIds } :
      c.method = "analyzeSpecificException" /\ c.status # "pending" }

\* C15: an analysis that returned reports stable for a histogram of fewer
\* than 2 buckets; otherwise, with the first floor(n/2) buckets as first
\* half and the rest as second half, it reports increasing when the change
\* of the second half's average over the first half's average is > 10 %,
\* decreasing when it is < -10 %, and stable otherwise (first average > 0).
C15_TrendOfHistogram ==
  \A c \in AnalysisCalls :
    c.status = "fulfilled" =>
      LET n == Len(c.aggs)
          n1 == n \div 2
          n2 == n - n1
          s1 == SumDocCount(SubSeq(c.aggs, 1, n1))
          s2 == SumDocCount(SubSeq(c.aggs, n1 + 1, n))
      IN  IF n < 2 THEN c.value.trend = "stable"
          ELSE s1 > 0 =>
                 c.value.trend =
                   (IF (s2 * n1 - s1 * n2) * 100 > 10 * s1 * n2 THEN "increasing"
                    ELSE IF (s2 * n1 - s1 * n2) * 100 < (0 - 10) * s1 * n2 THEN "decreasing"
                    ELSE "stable")

\* C16: an analysis that matched no document fails, and the kind of its
\* error differs from the kind of the error of a failed store request.
C16_NothingFoundIsItsOwnKind ==
  \A c \in AnalysisCalls :
    (c.status = "rejected" /\ c.err = AnalysisNothingFound) =>
      ErrorClass(c.err) # ErrorClass(AnalysisStoreFailure)

(***************************************************************************)
(* The smart search over messages made of words.                           *)
(***************************************************************************)
\* words of a message at most
MaxWords == 2

\* a stop word in capitals, a short word, key terms with punctuation and in
\* two spellings
TermWords == << "The", "to", "request", "null", "NULL,", "user-service" >>

\* the messages of n words w[1] ... w[n], separated by one space
MessageOf(n, w) == JoinSpace([k \in 1..n |-> Chars(TermWords[w[k]])])

ExampleMessage == Chars("NullPointerException: the request to user-service returned null")

\* the arguments of a smart search for a message
TermsArgs(msg) == Args("staging", msg, <<>>, None, <<>>, <<>>, None, 20, FALSE, TRUE, None, <<>>)

NextTerms ==
  \/ \E n \in 1..MaxWords : \E w \in [1..n -> 1..Len(TermWords)] :
       CallSmartSearchExceptions(1, "alpha", TermsArgs(MessageOf(n, w)), NowBase, 0)
  \/ CallSmartSearchExceptions(1, "alpha", TermsArgs(ExampleMessage), NowBase, 0)
  \/ \E i \in 1..3, ok \in BOOLEAN : StoreReply(1, i, ok, <<>>)
  \/ Resume(1)

SpecTerms == Init /\ [][NextTerms]_vars

\* the terms of the key-term search of tool call 1: the words of the query
\* text of its second search, and none when no second search was made
KeyTermsSent ==
  IF SmartCall /\ Len(req[1].calls) >= 2 /\ req[1].calls[2].params.must # <<>>
           /\ extractKeyTerms(req[1].p.message) # <<>>
    THEN LET text == Chars(req[1].calls[2].params.must[1].value)
             RECURSIVE Words(_, _)
             Words(i, cur) ==
               IF i > Len(text) THEN << Cat(cur) >>
               ELSE IF text[i] = " " THEN << Cat(cur) >> \o Words(i + 1, <<>>)
               ELSE Words(i + 1, Append(cur, text[i]))
         IN  Words(1, <<>>)
    ELSE <<>>

\* C17: the key terms of a message are at most 5, distinct, longer than 2
\* characters, lower-cased and no stop words; for the message
\* "NullPointerException: the request to user-service returned null" they
\* leave out the and to and retain nullpointerexception, request,
\* user-service (or user and service), returned and null.
C17_KeyTermsOfExample ==
  LET terms == KeyTermsSent
      set == { terms[k] : k \in 1..Len(terms) }
  IN  /\ Len(terms) <= 5
      /\ Cardinality(set) = Len(terms)
      /\ \A t \in set : Len(t) > 2 /\ t \notin stopWords
      /\ (SmartCall /\ req[1].p.message = ExampleMessage /\ req[1].calls # <<>>) =>
           /\ "the" \notin set /\ "to" \notin set
           /\ {"nullpointerexception", "request", "returned", "null"} \subseteq set
           /\ "user-service" \in set \/ {"user", "service"} \subseteq set

(***************************************************************************)
(* The analysis of one exception over messages made of words.              *)
(***************************************************************************)
\* the keywords of the rules in several spellings, and a word of no rule
CauseWords ==
  << "Null", "connection", "NETWORK", "memory", "heap", "permission", "Access", "timeout" >>

CauseMessageOf(n, w) == JoinSpace([k \in 1..n |-> Chars(CauseWords[w[k]])])

CauseExamples ==
  { Chars("Connection timeout to database"), Chars("NullPointerException"),
    Chars("foo bar baz") }

NextCauses ==
  \/ \E n \in 1..MaxWords : \E w \in [1..n -> 1..Len(CauseWords)] :
       CallAnalyzeException(1, "gamma", AnalysisArgs(CauseMessageOf(n, w), "24h"), NowBase)
  \/ \E msg \in CauseExamples :
       CallAnalyzeException(1, "gamma", AnalysisArgs(msg, "24h"), NowBase)
  \/ AnalysisReply(1, 1, TRUE, NewestHit, << [doc_count |-> 1] >>)
  \/ Resume(1)

SpecCauses == Init /\ [][NextCauses]_vars

\* the rule table of the causation heuristics
CausationRules ==
  << [keywords |-> {"null"},
      causes |-> << "Null pointer or undefined variable access",
                    "Missing null checks in code" >>,
      solutions |-> << "Add null checks before accessing variables or objects",
                       "Use optional chaining or safe navigation operators",
                       "Initialize variables with default values" >>],
     [keywords |-> {"connection", "network"},
      causes |-> << "Network connectivity issues",
                    "Database or external service unavailable",
                    "Timeout configuration too strict" >>,
      solutions |-> << "Implement retry mechanisms with exponential backoff",
                       "Add circuit breaker pattern for external services",
                       "Increase timeout configurations if appropriate",
                       "Add proper error handling for network failures" >>],
     [keywords |-> {"memory", "heap"},
      causes |-> << "Memory leak or insufficient heap size",
                    "Large data processing without proper cleanup" >>,
      solutions |-> << "Increase JVM heap size or application memory limits",
                       "Implement proper resource cleanup (close streams, connections)",
                       "Optimize data processing to handle smaller chunks",
                       "Profile application for memory leaks" >>],
     [keywords |-> {"permission", "access"},
      causes |-> << "Insufficient permissions or access rights",
                    "Authentication or authorization failure" >>,
      solutions |-> << "Check and update file or resource permissions",
                       "Verify authentication credentials and tokens",
                       "Review authorization rules and policies" >>] >>

\* rule k matches a message when one of its keywords occurs in it, letter
\* case ignored
RuleMatches(k, msg) ==
  \E kw \in CausationRules[k].keywords : includes(toLowerCase(msg), Chars(kw))

\* the causes and the solutions of the matching rules, in table order
RECURSIVE RuleCauses(_, _)
RuleCauses(k, msg) ==
  IF k > Len(CausationRules) THEN <<>>
  ELSE (IF RuleMatches(k, msg) THEN CausationRules[k].causes ELSE <<>>)
         \o RuleCauses(k + 1, msg)

RECURSIVE RuleSolutions(_, _)
RuleSolutions(k, msg) ==
  IF k > Len(CausationRules) THEN <<>>
  ELSE (IF RuleMatches(k, msg) THEN CausationRules[k].solutions ELSE <<>>)
         \o RuleSolutions(k + 1, msg)

\* the message an analysis call was made for
MessageAnalysed(c) == Chars(c.params.must[2].value)

\* C18: the causes and solutions of an analysis are those of every rule
\* whose keyword occurs in the message, letter case ignored, in the order of
\* the rule table; when no rule matches, and only then, they are the generic
\* 3 causes and 4 solutions, never mixed with rule output.
C18_RulesAdditiveInTableOrder ==
  \A c \in AnalysisCalls :
    c.status = "fulfilled" =>
      LET msg == MessageAnalysed(c)
          none == \A k \in 1..Len(CausationRules) : ~RuleMatches(k, msg)
      IN  /\ Len(GenericCauses) = 3 /\ Len(GenericSolutions) = 4
          /\ c.value.possibleCauses = (IF none THEN GenericCauses ELSE RuleCauses(1, msg))
          /\ c.value.suggestedSolutions =
               (IF none THEN GenericSolutions ELSE RuleSolutions(1, msg))
          /\ ~none => /\ \A j \in 1..Len(c.value.possibleCauses) :
                           c.value.possibleCauses[j] \notin SeqToSet(GenericCauses)
                      /\ \A j \in 1..Len(c.value.suggestedSolutions) :
                           c.value.suggestedSolutions[j] \notin SeqToSet(GenericSolutions)

\* the analysis of "heap Null" has returned: the keyword of the third rule
\* comes first in the message, and the causes of the first rule come first
C18_Witness ==
  \E c \in AnalysisCalls :
    /\ c.status = "fulfilled"
    /\ MessageAnalysed(c) = Chars("heap Null")
    /\ Len(c.value.possibleCauses) = 4
    /\ c.value.possibleCauses[1] = "Null pointer or undefined variable access"
    /\ c.value.possibleCauses[3] = "Memory leak or insufficient heap size"
    /\ Len(c.value.suggestedSolutions) = 7

(***************************************************************************)
(* One ConfigManager, the configuration file under it and the commands of  *)
(* the CLI.                                                                *)
(***************************************************************************)
\* teams in a configuration file at most
MaxFileTeams == 2

FileNode == "https://es:9200"

\* a team entry that validates
BaseTeam(teamId) ==
  RawTeam(teamId, "Team", "production", << << Env("production", FileNode) >> >>,
          << Patterns(<< << "logs-*" >> >>, << << "apm-*" >> >>) >>)

\* The entries a file may hold for a team: the valid one and entries that
\* differ from it in one field.
FileTeams(teamId) ==
  LET b == BaseTeam(teamId) IN
  { b,
    [b EXCEPT !.teamName = ""],
    [b EXCEPT !.environments = <<>>],
    [b EXCEPT !.environments = << <<>> >>, !.defaultEnvironment = None],
    [b EXCEPT !.environments = << << Env("production", "") >> >>, !.defaultEnvironment = None],
    [b EXCEPT !.environments = << << Env("production", FileNode), Env("staging", "") >> >>,
              !.defaultEnvironment = "staging"],
    [b EXCEPT !.environments = << << Env("production", FileNode), Env("staging", "") >> >>,
              !.defaultEnvironment = None],
    [b EXCEPT !.defaultEnvironment = "qa"],
    [b EXCEPT !.defaultEnvironment = None],
    [b EXCEPT !.indexPatterns = <<>>],
    [b EXCEPT !.indexPatterns = << Patterns(<<>>, << << "apm-*" >> >>) >>],
    [b EXCEPT !.indexPatterns = << Patterns(<< <<>> >>, << << "apm-*" >> >>) >>],
    [b EXCEPT !.indexPatterns = << Patterns(<< << "logs-*" >> >>, <<>>) >>],
    [b EXCEPT !.indexPatterns = << Patterns(<< << "logs-*" >> >>, << <<>> >>) >>] }

FileTeamIds == << "alpha", "beta", "gamma" >>

\* the team lists of a file: valid entries followed by one entry of any kind
FileTeamLists ==
  { <<>> } \cup
  UNION { { [k \in 1..n |-> IF k < n THEN BaseTeam(FileTeamIds[k]) ELSE last] :
              last \in FileTeams(FileTeamIds[n]) } : n \in 1..MaxFileTeams }

Files ==
  { MissingFile, GarbageFile, JsonFile(Config(<<>>)) } \cup
  { JsonFile(Config(<< teams >>)) : teams \in FileTeamLists }

\* a manager to be constructed over one of the files
Unconstructed(files) ==
  /\ req = [r \in ReqIds |-> Idle]
  /\ clients = [r \in ReqIds |-> EmptyCache]
  /\ created = <<>>
  /\ acq = NoAcquire
  /\ cm \in { Manager(file, FALSE, NoConfig, Outcome("none", None)) : file \in files }
  /\ releases = <<>>
  /\ http = HttpIdle
  /\ exited = FALSE

InitLoad == Unconstructed(Files)

\* the file is edited and loaded: by the constructor, by validate-config
\* and by reloadConfig
NextLoad ==
  \/ Construct
  \/ \E file \in Files : EditFile(file)
  \/ LoadConfig
  \/ ReloadConfig

SpecLoad == InitLoad /\ [][NextLoad]_vars

\* The team addTeamInteractive builds from the answers: the name and every
\* node URL are required, the default environment must be one of the
\* environments entered, and the pattern lists default to one pattern.
BuiltTeam(teamId, both) ==
  RawTeam(teamId, "Delta Team", IF both THEN "staging" ELSE "production",
          << IF both THEN << Env("staging", FileNode), Env("production", FileNode) >>
             ELSE << Env("production", FileNode) >> >>,
          << Patterns(<< << "logs-*" >> >>, << << "apm-*" >> >>) >>)

BuiltTeams == { BuiltTeam(teamId, both) : teamId \in {"alpha", "delta"}, both \in BOOLEAN }

\* the files under a manager whose teams are added and removed: no file, no
\* JSON, no teams, and fewer than MaxFileTeams teams that are valid or have
\* a fault in their environments
ConfigFiles ==
  { f \in Files :
      \/ f.kind # "json"
      \/ f.config.teams = <<>>
      \/ /\ Len(f.config.teams[1]) < MaxFileTeams
         /\ \A k \in 1..Len(f.config.teams[1]) :
              f.config.teams[1][k].indexPatterns = BaseTeam("alpha").indexPatterns }

InitConfig == Unconstructed(ConfigFiles)

NextConfig ==
  \/ Construct
  \/ \E file \in ConfigFiles : EditFile(file)
  \/ ReloadConfig
  \/ \E same, wrote, cut \in BOOLEAN : SaveConfig(EmptyConfig, same, wrote, cut)
  \/ \E t \in BuiltTeams, wrote, cut \in BOOLEAN : AddTeam(t, wrote, cut)
  \/ \E teamId \in {"alpha", "delta", "omega"}, wrote, cut \in BOOLEAN :
       RemoveTeam(teamId, wrote, cut)

SpecConfig == InitConfig /\ [][NextConfig]_vars

\* the requirements on a team entry: a non-empty teamName, an environment
\* with an endpoint, a defaultEnvironment that is unset or names an
\* environment with an endpoint
HasEndpoint(team, name) ==
  /\ team.environments # <<>>
  /\ \E k \in 1..Len(team.environments[1]) :
       /\ team.environments[1][k].name = name
       /\ team.environments[1][k].node \notin {None, ""}

EnvironmentsSound(team) ==
  /\ team.environments # <<>>
  /\ \E k \in 1..Len(team.environments[1]) : HasEndpoint(team, team.environments[1][k].name)
  /\ team.defaultEnvironment \notin {None, ""} => HasEndpoint(team, team.defaultEnvironment)

\* both pattern lists are present and not empty
PatternsSound(team) ==
  /\ team.indexPatterns # <<>>
  /\ team.indexPatterns[1].exceptions # <<>>
  /\ team.indexPatterns[1].exceptions[1] # <<>>
  /\ team.indexPatterns[1].applications # <<>>
  /\ team.indexPatterns[1].applications[1] # <<>>

\* a load of the file has just returned a configuration
Loaded ==
  /\ cm.last.op \in {"constructor", "loadConfig", "reloadConfig"}
  /\ cm.last.err = None
  /\ cm.file.kind = "json"

\* C19: a load returns a configuration only if every team of the file has a
\* non-empty teamName, an environment with an endpoint, a defaultEnvironment
\* that is unset or names an environment with an endpoint, and exceptions
\* and applications pattern lists that are present and not empty.
C19_LoadOnlyValidTeams ==
  Loaded =>
    /\ cm.file.config.teams # <<>>
    /\ \A k \in 1..Len(cm.file.config.teams[1]) :
         LET team == cm.file.config.teams[1][k] IN
         /\ team.teamName \notin {None, ""}
         /\ EnvironmentsSound(team)
         /\ PatternsSound(team)

FrequencyArgs ==
  { Args("staging", msg, <<>>, None, <<>>, <<>>, None, limit, TRUE, smart, None, <<>>) :
      msg \in SearchTexts, limit \in SearchLimits, smart \in BOOLEAN }

NextFrequency ==
  \/ \E t \in SearchTeams, p \in FrequencyArgs : CallSearchExceptions(1, t, p, NowBase, 0)
  \/ \E t \in SearchTeams, p \in FrequencyArgs : CallSmartSearchExceptions(1, t, p, NowBase, 0)
  \/ \E i \in 1..3, ok \in BOOLEAN, hits \in HitLists(Cardinality(Docs)) :
       StoreReply(1, i, ok, hits)
  \/ Resume(1)

SpecFrequency == Init /\ [][NextFrequency]_vars

\* how often the message of a record occurs among the records
Occurrences(results, k) ==
  Cardinality({ j \in 1..Len(results) : results[j].message = results[k].message })

\* C21: the results of a successful search_exceptions called with
\* sortByFrequency = true are in the order of non-increasing occurrence
\* count.
C21_MostFrequentFirst ==
  \A r \in ReqIds :
    (/\ req[r].pc = "done"
     /\ req[r].outcome = "success"
     /\ req[r].tool \in {"search_exceptions", "smart_search_exceptions"}
     /\ req[r].p.sortByFrequency) =>
      \A a, b \in 1..Len(req[r].results) :
        a < b => Occurrences(req[r].results, a) >= Occurrences(req[r].results, b)

(***************************************************************************)
(* analyze_trends from its call to its response.                           *)
(***************************************************************************)
\* the arguments of analyze_trends; the schema defaults timeframe to '24h'
TrendsToolArgs ==
  { Args(env, <<>>, <<>>, None, <<>>, timeRange, timeframe, 20, FALSE, FALSE, analysisType, <<>>) :
      env \in {None, "production"},
      timeRange \in {<<>>, << GivenRange >>},
      timeframe \in {"1h", "6h", "12h", "24h", "7d"},
      analysisType \in {"exceptions", "services", "both"} }

NextTrendsTool ==
  \/ \E p \in TrendsToolArgs : CallAnalyzeTrends(1, "gamma", p, NowBase, 0)
  \/ \E i \in 1..2, ok \in BOOLEAN : StoreReply(1, i, ok, <<>>)
  \/ \E i \in 1..2 : TrendsReply(1, i, ServiceBuckets(1, << << 10, 12 >> >>))
  \/ TrendsContinue(1, NowBase)
  \/ Resume(1)

SpecTrendsTool == Init /\ [][NextTrendsTool]_vars

\* C22: a successful response of analyze_trends names the team and the
\* environment its searches went to, and the window it reports (timeRange
\* when given, else the timeframe counted back from the time of the search)
\* is the one range of every search the request sent: of the exception
\* aggregation and of the service trends.
C22_ReportedWindowIsUsed ==
  \A r \in ReqIds :
    (req[r].pc = "done" /\ req[r].outcome = "success" /\ req[r].tool = "analyze_trends") =>
      \A i \in 1..Len(req[r].calls) :
        LET call == req[r].calls[i] IN
        /\ call.key = req[r].teamId \o ":" \o req[r].environment
        /\ \E c \in RangeClauses(call.params) :
             /\ RangeClauses(call.params) = {c}
             /\ IF req[r].p.timeRange # <<>>
                  THEN c.gte = req[r].p.timeRange[1].start /\ c.lte = req[r].p.timeRange[1].end
                  ELSE /\ c.gte = format(call.now - DurationHours(req[r].p.timeframe) * MsPerHour)
                       /\ c.lte = format(call.now)

(***************************************************************************)
(* The server process from its start to its exit: sessions are opened and  *)
(* closed, their tools are called, and SIGTERM or SIGINT arrives.          *)
(***************************************************************************)
NextShutdown ==
  \/ \E r \in ReqIds, t \in {"gamma", "omega"} :
       ~exited /\ CallTestConnection(r, t, NoArgs, NowBase)
  \/ \E r \in ReqIds, ok \in BOOLEAN : ~exited /\ StoreReply(r, 1, ok, <<>>)
  \/ \E r \in ReqIds : ~exited /\ Resume(r)
  \/ \E c \in ConnIds, t \in {"gamma", "omega"} : ~exited /\ GetSse(c, t, TRUE, TRUE)
  \/ \E c \in ConnIds : ~exited /\ CloseSse(c)
  \/ Signal

SpecShutdown == Init /\ [][NextShutdown]_vars

\* C23: once the process has exited on SIGTERM or SIGINT, close() has been
\* called on every client constructed during its lifetime.
C23_ExitClosesEveryClient ==
  exited => \A h \in 1..Len(created) : h \in Closed

(***************************************************************************)
(* The connection cache of one service with its release: getClient and     *)
(* closeAllConnections in any order, close() throwing for any clients.     *)
(***************************************************************************)
ReleaseTeams == {"alpha", "omega"}

ReleaseEnvArgs == {None, "staging", "qa"}

NextRelease ==
  \/ \E teamId \in ReleaseTeams, environment \in ReleaseEnvArgs : Acquire(teamId, environment)
  \/ \E throws \in SUBSET HandlesOf(clients[1]) : CloseAllConnections(throws)

SpecRelease == Init /\ [][NextRelease]_vars

\* C24: every closeAllConnections call has called close() on each client the
\* cache held, whichever of them threw, and has left the cache empty; the
\* cache never holds a client close() was called on, so a getClient after
\* it, for any team and environment, returns a client that was not closed.
C24_ReleaseAllThenFreshClients ==
  /\ \A k \in 1..Len(releases) :
       /\ releases[k].attempted = { releases[k].before[key] : key \in DOMAIN releases[k].before }
       /\ releases[k].after = EmptyCache
  /\ \A key \in DOMAIN clients[1] : clients[1][key] \notin Closed
  /\ \A teamId \in ReleaseTeams, environment \in ReleaseEnvArgs :
       LET g == getClient(clients[1], Len(created), 1, teamId, environment)
       IN  g.err = None => g.handle \notin Closed

\* two clients released, the close() of one of them throwing, and then the
\* key of one of them acquired again
C24_Witness ==
  \E k \in 1..Len(releases) :
    /\ Cardinality(releases[k].attempted) = 2
    /\ Cardinality(releases[k].threw) = 1
    /\ acq.err = None
    /\ acq.key \in DOMAIN releases[k].before
    /\ acq.made = 1
    /\ acq.handle \notin releases[k].attempted
    /\ acq.key \in DOMAIN clients[1]
    /\ clients[1][acq.key] = acq.handle

(***************************************************************************)
(* The searches of a smart search, over messages made of words.            *)
(***************************************************************************)
\* the query texts of the searches tool call 1 has made, in order
TextsSent == [i \in 1..Len(req[1].calls) |-> req[1].calls[i].params.must[1].value]

\* the positions of the key terms longer than 4 characters
StrongTerms(keyTerms) == { k \in 1..Len(keyTerms) : Len(keyTerms[k]) > 4 }

\* C25: a smart search makes 1 to 3 searches: first the phrase search for
\* the whole search term in double quotes; then, iff extractKeyTerms yields a
\* term, the search for the key terms joined by spaces; then, iff a key term
\* is longer than 4 characters, the search for the first such term alone.
C25_SmartSearchStrategies ==
  (SmartCall /\ req[1].pc \in {"awaiting", "done"}) =>
    LET searchTerm == req[1].p.message
        keyTerms == extractKeyTerms(searchTerm)
        strong == StrongTerms(keyTerms)
        n == Len(req[1].calls)
    IN  /\ n = 1 + (IF Len(keyTerms) > 0 THEN 1 ELSE 0) + (IF strong # {} THEN 1 ELSE 0)
        /\ n \in 1..3
        /\ TextsSent[1] = Cat(<< "\"" >> \o searchTerm \o << "\"" >>)
        /\ Len(keyTerms) > 0 => TextsSent[2] = Cat(JoinSpace(keyTerms))
        /\ strong # {} =>
             TextsSent[n] = Cat(keyTerms[CHOOSE k \in strong : \A j \in strong : k <= j])

\* a smart search of three searches for a term with two different key terms
\* longer than 4 characters, answered
C25_Witness ==
  /\ SmartCall
  /\ req[1].pc = "done"
  /\ Len(req[1].calls) = 3
  /\ Cardinality(StrongTerms(extractKeyTerms(req[1].p.message))) = 2

\* C26: the merge of a smart search takes two records for the same only when
\* they have the same id and the same index: unless the limit cut the list,
\* every record a fulfilled strategy returned is in the response with its id
\* and its index.
C26_MergeKeepsRecordsOfOtherIndices ==
  (SmartCall /\ req[1].pc = "done" /\ Len(req[1].results) < req[1].p.limit) =>
    \A i \in Fulfilled(req[1]) :
      \A h \in 1..Len(req[1].calls[i].hits) :
        \E k \in 1..Len(req[1].results) :
          /\ req[1].results[k].id = req[1].calls[i].hits[h].id
          /\ req[1].results[k].index = req[1].calls[i].hits[h].index

(***************************************************************************)
(* analyze_exception over whatever buckets the store's answer carries:     *)
(* determineTrend is given aggs.time_distribution.buckets as received, so  *)
(* the leading buckets may be empty.                                       *)
(***************************************************************************)
MaxAnyBuckets == 4

AnyCounts(n) == [1..n -> 0..MaxCount]

NextBuckets ==
  \/ \E tf \in {"24h", "7d"} :
       CallAnalyzeException(1, "gamma", AnalysisArgs(TextTimeout, tf), NowBase)
  \/ \E n \in 1..MaxAnyBuckets : \E c \in AnyCounts(n) :
       AnalysisReply(1, 1, TRUE, NewestHit, HistogramBuckets(n, c))
  \/ \E ok \in BOOLEAN : AnalysisReply(1, 1, ok, <<>>, <<>>)
  \/ Resume(1)

SpecBuckets == Init /\ [][NextBuckets]_vars

\* C27: an analysis that returned reports stable for every histogram of 2 or
\* more buckets whose first half (the first floor(n/2) buckets) has total
\* count 0, whatever the counts of the second half.
C27_EmptyFirstHalfIsStable ==
  \A c \in AnalysisCalls :
    (c.status = "fulfilled" /\ Len(c.aggs) >= 2
       /\ SumDocCount(SubSeq(c.aggs, 1, Len(c.aggs) \div 2)) = 0) =>
      c.value.trend = "stable"

(***************************************************************************)
(* The connection cache of one service over teams and environments whose   *)
(* names hold the separator of the client key.                             *)
(***************************************************************************)
KeyTeams == {"alpha", "eu", "eu:west"}

KeyEnvArgs == {None, "staging", "prod", "west:prod"}

NextKeys == \E teamId \in KeyTeams, environment \in KeyEnvArgs : Acquire(teamId, environment)

SpecKeys == Init /\ [][NextKeys]_vars

\* C28: the client getClient(teamId, environment) returns was constructed
\* for the node of that team's configuration of that environment (the
\* team's default when omitted), for all team ids and environment names.
C28_ClientOfItsTeamAndEnvironment ==
  (acq.handle # 0 /\ acq.err = None) =>
    LET teamConfig == TeamsFile[acq.teamId]
        env == IF Truthy(acq.environment) THEN acq.environment
               ELSE teamConfig.defaultEnvironment
    IN  created[acq.handle].node = teamConfig.environments[env].node

\* C29: a step of addTeam or removeTeam that fails (the team exists already,
\* the team is not found, the file cannot be written) leaves the
\* configuration in memory as it was, and one that succeeds leaves the file
\* holding the configuration in memory.
C29_FailedChangeKeepsMemory ==
  [][ cm'.last.op \in {"addTeam", "removeTeam"} =>
        IF cm'.last.err # None
          THEN cm'.config = cm.config
          ELSE cm'.file.kind = "json" /\ cm'.file.config = cm'.config ]_vars

(***************************************************************************)
(* The HTTP server taken alone: SSE requests, their close events, POSTs to *)
(* the messages path and shutdownHttpServer, in any order.                 *)
(***************************************************************************)
SseTeams == {None, "omega", "gamma"}

NextHttp ==
  \/ \E c \in ConnIds, teamId \in SseTeams, connects, headersSent \in BOOLEAN :
       GetSse(c, teamId, connects, headersSent)
  \/ \E c \in ConnIds : CloseSse(c)
  \/ \E sessionId \in 0..(MaxConns + 1), handled \in BOOLEAN : PostMessage(sessionId, handled)
  \/ ShutdownHttpServer

SpecHttp == Init /\ [][NextHttp]_vars

\* the SSE requests at one of the given positions
ConnsAt(pcs) == { c \in ConnIds : http.conn[c].pc \in pcs }

\* what holds of the stores whatever a failed connect leaves behind
StoresSound ==
  /\ http.sseTransportStore = http.sseServerStore
  /\ \A c \in ConnIds :
       (http.conn[c].pc # "none"
          /\ (~Truthy(http.conn[c].teamId) \/ ~TeamKnown(http.conn[c].teamId))) =>
         http.conn[c].pc = "refused"
  /\ http.last = "shutdownHttpServer" =>
       http.sseTransportStore = {} /\ http.sseServerStore = {}
  /\ (http.last = "post" /\ http.post.sessionId \notin http.sseTransportStore) =>
       http.post.status = 400 /\ http.post.reached = 0

====
